---- MODULE Spec2Model ----
(***************************************************************************)
(* A model of the analysis engine of Report-Housing (backend/):            *)
(*   - analysis/helpers.py      prepare_data_groups, format_group_name,    *)
(*                              apply_transformations                      *)
(*   - analysis/*.py            the seven analysis handlers (run)          *)
(*   - orchestrator.py          run_dynamic_analysis (a generator)         *)
(*                                                                         *)
(* Ten specifications share the definitions:                                *)
(*   SpecPrep     calls of prepare_data_groups on one table                *)
(*   SpecHandler  calls of the analysis handlers on one table              *)
(*   Spec         run_dynamic_analysis driven by a consumer                *)
(*   SpecPercent  calls of _compute_percentages on lists of counts         *)
(*   SpecCorrelation  calls of correlation.run on tables of two columns    *)
(*   SpecKeyDriver  calls of key_driver.run, the fit being an input         *)
(*   SpecSeries   calls of time_series.run on tables with a date column    *)
(*   SpecHeaders  calls of _normalize_headers on the header row of a file   *)
(*   SpecLogs     two invocations calling warn_once in one process          *)
(*   SpecDistribution  calls of _op_distribution on one column              *)
(*                                                                         *)
(* A DataFrame is a record [columns, dtypes, rows]; a row keeps its index  *)
(* label, so that filtering and grouping preserve "the original row".      *)
(* A cell is a tagged record: NA (NaN/None), Num(k) or Str(s), where a     *)
(* string is a sequence of symbols (characters for data, one symbol for a  *)
(* message literal of the code) and a number is the rational n/d.          *)
(***************************************************************************)
EXTENDS Integers, Sequences, FiniteSets, TLC

VARIABLES
    df,        \* the caller's DataFrame (the object passed to every call)
    step,      \* SpecPrep/SpecHandler: the step of the last call
    result,    \* SpecPrep/SpecHandler: what the last call returned or raised
    request,   \* Spec: the AnalysisRequest's analysis_steps
    pc,        \* position of the running code
    idx,       \* Spec: number of loop iterations of run_dynamic_analysis begun
    yielded,   \* Spec: the items the consumer has received, in order
    invoked,   \* Spec: the steps whose handler has been called, in order
    fn_args,   \* SpecPercent/SpecHeaders: the argument of the function called on its own
    fn_value,  \* SpecPercent/SpecHeaders: what the last call of the function returned
    ols,       \* SpecHandler/SpecKeyDriver: what statsmodels did in the last call
    _seen_once \* SpecLogs: the module-level set of report_auto/logs.py

vars ==
    <<df, step, result, request, pc, idx, yielded, invoked, fn_args, fn_value, ols, _seen_once>>

(***************************************************************************)
(* Bounds of the model.                                                    *)
(***************************************************************************)
MaxRows == 2       \* rows of an input table
MaxFilters == 2    \* filters of a step (SpecPrep)
MaxSteps == 2      \* analysis_steps of a request (Spec)

MaxValues == 4     \* distinct values counted by a distribution (SpecPercent)
MaxCount == 5      \* occurrences of one value (SpecPercent)
MaxCorrRows == 3   \* rows of a table of SpecCorrelation
MaxFitRows == 4    \* rows of a table of SpecKeyDriver
MaxHeaders == 3    \* columns of a loaded file (SpecHeaders)
MaxWarnings == 2   \* calls of warn_once by one invocation (SpecLogs)
MaxItems == 3      \* rows of the column given to _op_distribution (SpecDistribution)

(***************************************************************************)
(* Cells and strings.                                                      *)
(***************************************************************************)
NA == [t |-> "na", n |-> 0, d |-> 1, s |-> <<>>]
Num(k) == [t |-> "num", n |-> k, d |-> 1, s |-> <<>>]
Str(cs) == [t |-> "str", n |-> 0, d |-> 1, s |-> cs]
\* a message literal of the code, held as one symbol
Lit(m) == Str(<<m>>)

IsNA(c) == c.t = "na"
IsNum(c) == c.t = "num"
IsStr(c) == c.t = "str"

\* The characters of the data strings of the model, in code-point order.
Chars == <<" ", "%", ",", "-", ".", "/", "0", "1", "2", "3", "4", "5", "6", "7", "8", "9", ";",
           "A", "B", "a", "b", "n">>

CharCode(c) == CHOOSE i \in 1..Len(Chars) : Chars[i] = c

\* Python's str < str: lexicographic by code point.
RECURSIVE StrLess(_, _)
StrLess(a, b) ==
    IF b = <<>> THEN FALSE
    ELSE IF a = <<>> THEN TRUE
    ELSE IF Head(a) = Head(b) THEN StrLess(Tail(a), Tail(b))
    ELSE CharCode(Head(a)) < CharCode(Head(b))

\* Python's `needle in hay` (str.contains with a pattern free of regex
\* metacharacters is a substring search).
Contains(hay, needle) ==
    \E i \in 0..(Len(hay) - Len(needle)) :
        SubSeq(hay, i + 1, i + Len(needle)) = needle

Digit(k) == Chars[k + 7]

RECURSIVE Digits(_)
Digits(k) == IF k < 10 THEN <<Digit(k)>> ELSE Digits(k \div 10) \o <<Digit(k % 10)>>

\* str(int)
IntStr(k) == IF k < 0 THEN <<"-">> \o Digits(-k) ELSE Digits(k)

\* Series.astype(str) on one cell: NaN becomes the string "nan" (numpy
\* object/float columns), an int64 cell prints as an integer, a float64
\* cell with a trailing ".0".
AsTypeStr(c, dtype) ==
    IF IsNA(c) THEN <<"n", "a", "n">>
    ELSE IF IsStr(c) THEN c.s
    ELSE IF dtype = "float64" THEN IntStr(c.n) \o <<".", "0">>
    ELSE IntStr(c.n)

(***************************************************************************)
(* DataFrames.                                                             *)
(***************************************************************************)
Range(f) == {f[i] : i \in DOMAIN f}

\* pandas' dtype inference for a column's cells.
InferDType(cells) ==
    IF cells # {} /\ \A c \in cells : IsNum(c) THEN "int64"
    ELSE IF cells # {} /\ \A c \in cells : IsNum(c) \/ IsNA(c) THEN "float64"
    ELSE "object"

\* DataFrame(...) from a list of column names and the rows' cells.
MakeTable(columns, cellrows) ==
    [columns |-> columns,
     dtypes |-> [j \in 1..Len(columns) |->
                    InferDType({cellrows[i][j] : i \in 1..Len(cellrows)})],
     rows |-> [i \in 1..Len(cellrows) |-> [index |-> i - 1, cells |-> cellrows[i]]]]

\* df.columns == name, as the set of positions: one position for a Series,
\* several when the name is duplicated, none when it is absent.
Positions(tbl, name) == {j \in 1..Len(tbl.columns) : tbl.columns[j] = name}

Pos(tbl, name) == CHOOSE j \in Positions(tbl, name) : TRUE

HasColumn(tbl, name) == Positions(tbl, name) # {}

IsEmpty(tbl) == Len(tbl.rows) = 0 \/ Len(tbl.columns) = 0

WithRows(tbl, rows) == [tbl EXCEPT !.rows = rows]

NoTable == [columns |-> <<>>, dtypes |-> <<>>, rows |-> <<>>]

(***************************************************************************)
(* helpers.prepare_data_groups                                             *)
(*                                                                         *)
(* A Filter is [column, operator, value]; value is the list of the         *)
(* filter's values (a scalar value is the one-element list).               *)
(* DataFrame objects live in a heap (a sequence, object 1 being the        *)
(* caller's df): df.copy() and boolean indexing allocate a new object and  *)
(* write no existing one.                                                  *)
(***************************************************************************)
Scalar(f) == f.value[1]

\* One cell of the boolean mask of lines 28-41.
MatchCell(c, dtype, f) ==
    CASE f.operator = "eq" -> ~IsNA(c) /\ c = Scalar(f)
      [] f.operator = "neq" -> IsNA(c) \/ c # Scalar(f)
      [] f.operator = "gt" ->
            /\ ~IsNA(c)
            /\ IF IsNum(c) THEN c.n > Scalar(f).n ELSE StrLess(Scalar(f).s, c.s)
      [] f.operator = "lt" ->
            /\ ~IsNA(c)
            /\ IF IsNum(c) THEN c.n < Scalar(f).n ELSE StrLess(c.s, Scalar(f).s)
      [] f.operator = "in" -> c \in Range(f.value)
      [] f.operator = "not_in" -> c \notin Range(f.value)
      [] f.operator = "contains" -> Contains(AsTypeStr(c, dtype), Scalar(f).s)
      [] OTHER -> TRUE

\* `col > value` / `col < value` raise TypeError when the operands cannot be
\* ordered: a numeric column against a str, or an object column holding a
\* non-missing cell of the other type.
CompareRaises(tbl, j, f) ==
    /\ f.operator \in {"gt", "lt"}
    /\ IF tbl.dtypes[j] \in {"int64", "float64"}
       THEN IsStr(Scalar(f))
       ELSE \E i \in 1..Len(tbl.rows) :
                LET c == tbl.rows[i].cells[j] IN ~IsNA(c) /\ c.t # Scalar(f).t

Raised(exc, msg, k, heap, ref) ==
    [exc |-> exc, msg |-> msg, applied |-> k, heap |-> heap, ref |-> ref]

\* lines 18-41: the filter loop, k filters having been applied to heap[ref]
RECURSIVE ApplyFilters(_, _, _, _)
ApplyFilters(heap, ref, filters, k) ==
    IF k = Len(filters)
    THEN [exc |-> "", msg |-> "", applied |-> k, heap |-> heap, ref |-> ref]
    ELSE LET f == filters[k + 1]
             cur == heap[ref]
             P == Positions(cur, f.column)
         IN  IF P = {} THEN Raised("KeyError", f.column, k, heap, ref)
             ELSE IF Cardinality(P) > 1
             THEN Raised("TypeError", "resolved to a DataFrame; expected a Series", k, heap, ref)
             ELSE LET j == Pos(cur, f.column) IN
                  IF CompareRaises(cur, j, f)
                  THEN Raised("TypeError", "not supported between instances", k, heap, ref)
                  ELSE LET kept == SelectSeq(cur.rows,
                                     LAMBDA r : MatchCell(r.cells[j], cur.dtypes[j], f))
                           heap2 == Append(heap, WithRows(cur, kept))
                       IN  ApplyFilters(heap2, Len(heap2), filters, k + 1)

\* An order on cells for sorting group keys: missing keys last.
CellLess(a, b) ==
    IF IsNA(a) THEN FALSE
    ELSE IF IsNA(b) THEN TRUE
    ELSE IF IsNum(a) /\ IsNum(b) THEN a.n < b.n
    ELSE IF IsStr(a) /\ IsStr(b) THEN StrLess(a.s, b.s)
    ELSE IsNum(a)

RECURSIVE KeyLess(_, _)
KeyLess(a, b) ==
    IF a = <<>> \/ b = <<>> THEN FALSE
    ELSE IF Head(a) = Head(b) THEN KeyLess(Tail(a), Tail(b))
    ELSE CellLess(Head(a), Head(b))

RECURSIVE SortKeys(_)
SortKeys(S) ==
    IF S = {} THEN <<>>
    ELSE LET m == CHOOSE a \in S : \A b \in S : ~KeyLess(b, a)
         IN  <<m>> \o SortKeys(S \ {m})

KeyOf(tbl, group_by, r) ==
    [j \in 1..Len(group_by) |-> r.cells[Pos(tbl, group_by[j])]]

\* groupby with pandas' default dropna=True: rows with a missing key are dropped
GroupByDropNA(tbl, group_by) ==
    LET keys == SortKeys({k \in {KeyOf(tbl, group_by, tbl.rows[i]) : i \in 1..Len(tbl.rows)} :
                            \A j \in 1..Len(k) : ~IsNA(k[j])})
    IN  [g \in 1..Len(keys) |->
            [name |-> keys[g],
             df |-> WithRows(tbl, SelectSeq(tbl.rows,
                        LAMBDA r : KeyOf(tbl, group_by, r) = keys[g]))]]

\* line 44: filtered_df.groupby(step.group_by, dropna=False), iterated:
\* one (key, sub-frame) per distinct key tuple, keys sorted, rows in order.
GroupByKeepNA(tbl, group_by) ==
    LET keys == SortKeys({KeyOf(tbl, group_by, tbl.rows[i]) : i \in 1..Len(tbl.rows)})
    IN  [g \in 1..Len(keys) |->
            [name |-> keys[g],
             df |-> WithRows(tbl, SelectSeq(tbl.rows,
                        LAMBDA r : KeyOf(tbl, group_by, r) = keys[g]))]]

FullDataset == <<Lit("Full Dataset")>>

NoGroups == <<>>

\* lines 43-46: the grouping of the filtered frame, fl what the filter loop
\* left
GroupFiltered(fl, s) ==
    LET filtered_df == fl.heap[fl.ref]
        out(exc, msg, groups) ==
            [exc |-> exc, msg |-> msg, applied |-> fl.applied,
             groups |-> groups, heap |-> fl.heap, ref |-> fl.ref]
    IN  IF fl.exc # "" THEN out(fl.exc, fl.msg, NoGroups)
        ELSE IF s.group_by = <<>>
        THEN out("", "", <<[name |-> FullDataset, df |-> filtered_df]>>)
        ELSE IF \E j \in 1..Len(s.group_by) : ~HasColumn(filtered_df, s.group_by[j])
        THEN out("KeyError", "group_by", NoGroups)
        ELSE IF \E j \in 1..Len(s.group_by) :
                    Cardinality(Positions(filtered_df, s.group_by[j])) > 1
        THEN out("ValueError", "Grouper not 1-dimensional", NoGroups)
        ELSE out("", "", GroupByKeepNA(filtered_df, s.group_by))

\* lines 16-46 on the heap: the filter loop on a copy (line 16,
\* filtered_df = df.copy(), is object 2), then the grouping.
FilterAndGroup(table, s) ==
    GroupFiltered(ApplyFilters(<<table, table>>, 2, s.filters, 0), s)

\* what the call did, the caller's DataFrame being object ref of the heap
PrepResult(r, ref) ==
    [exc |-> r.exc, msg |-> r.msg, applied |-> r.applied, groups |-> r.groups,
     df |-> r.heap[ref]]

\* the caller's name bound to the object the filter loop ended on
Narrowed(r) == PrepResult(r, r.ref)

\* a variant that narrows the caller's own object instead of a copy
prepare_data_groups_in_place(table, s) == Narrowed(FilterAndGroup(table, s))

\* prepare_data_groups(df, step): what it returns or raises, and the
\* caller's object after the call.
\*   exc      "" when it returned, else the exception's class
\*   applied  the number of filters applied when it returned or raised
\*   groups   the (group_name, group_df) pairs returned
\*   df       the caller's DataFrame after the call: object 1 of the heap
prepare_data_groups(table, s) == PrepResult(FilterAndGroup(table, s), 1)

\* helpers.format_group_name: ", ".join(map(str, group_name)); str of a
\* missing key is "nan", of a number its digits.
RECURSIVE JoinKey(_)
JoinKey(name) ==
    IF name = <<>> THEN <<>>
    ELSE LET h == AsTypeStr(Head(name), "int64")
         IN  IF Len(name) = 1 THEN h ELSE h \o <<",", " ">> \o JoinKey(Tail(name))

format_group_name(group_name) == Str(JoinKey(group_name))

(***************************************************************************)
(* Series and result tables.                                               *)
(*                                                                         *)
(* A Series is [dtype, items], items a sequence of [index, value]. A        *)
(* result DataFrame is [columns, rows]: a column label is a string held as *)
(* a sequence of symbols (L("Group"), or the text of a value that became a *)
(* label), a row a function from the labels to cells.                      *)
(* What a handler does is an outcome: the value it returned (a ReportBlock *)
(* or None) or the exception it raised, with the caller's table after it.  *)
(***************************************************************************)
L(name) == <<name>>

Frame(columns, rows) == [columns |-> columns, rows |-> rows]

EmptyFrame(columns) == Frame(columns, <<>>)

ReportBlock(title, data) == [kind |-> "block", title |-> title, data |-> data]

None == [kind |-> "none"]

Returned(value, table) ==
    [ret |-> "value", exc |-> "", msg |-> "", value |-> value, df |-> table]

Raises(exc, msg, table) ==
    [ret |-> "raise", exc |-> exc, msg |-> msg, value |-> None, df |-> table]

\* group_df[col_name]
ColumnSeries(tbl, name) ==
    [dtype |-> tbl.dtypes[Pos(tbl, name)],
     items |-> [i \in 1..Len(tbl.rows) |->
                 [index |-> tbl.rows[i].index,
                  value |-> tbl.rows[i].cells[Pos(tbl, name)]]]]

IsDigits(cs) ==
    /\ cs # <<>>
    /\ \A i \in 1..Len(cs) : \E k \in 0..9 : cs[i] = Digit(k)

RECURSIVE ParseDigits(_)
ParseDigits(cs) ==
    IF cs = <<>> THEN 0
    ELSE 10 * ParseDigits(SubSeq(cs, 1, Len(cs) - 1))
         + (CHOOSE k \in 0..9 : cs[Len(cs)] = Digit(k))

\* pd.to_numeric(errors="coerce") on one cell: a number stays; a string of
\* digits, with an optional trailing ".0", is parsed; every other string of
\* the model and a missing value become NaN.
ToNumeric(c) ==
    IF IsNum(c) THEN c
    ELSE IF IsStr(c) /\ IsDigits(c.s) THEN Num(ParseDigits(c.s))
    ELSE IF /\ IsStr(c)
            /\ Len(c.s) > 2
            /\ SubSeq(c.s, Len(c.s) - 1, Len(c.s)) = <<".", "0">>
            /\ IsDigits(SubSeq(c.s, 1, Len(c.s) - 2))
    THEN Num(ParseDigits(SubSeq(c.s, 1, Len(c.s) - 2)))
    ELSE NA

MapItems(items, Op(_)) ==
    [i \in 1..Len(items) |-> [index |-> items[i].index, value |-> Op(items[i].value)]]

\* pd.to_numeric(series, errors="coerce")
ToNumericSeries(series) ==
    LET items == MapItems(series.items, ToNumeric) IN
    [dtype |-> InferDType({items[i].value : i \in 1..Len(items)}) , items |-> items]

\* Series.dropna()
DropNA(series) == [series EXCEPT !.items = SelectSeq(series.items, LAMBDA e : ~IsNA(e.value))]

\* the integer values of a numeric Series without missing values
Ints(series) == [i \in 1..Len(series.items) |-> series.items[i].value.n]

RECURSIVE SumSeq(_)
SumSeq(xs) == IF xs = <<>> THEN 0 ELSE Head(xs) + SumSeq(Tail(xs))

RECURSIVE InsertSorted(_, _)
InsertSorted(x, xs) ==
    IF xs = <<>> THEN <<x>>
    ELSE IF x <= Head(xs) THEN <<x>> \o xs
    ELSE <<Head(xs)>> \o InsertSorted(x, Tail(xs))

RECURSIVE SortInts(_)
SortInts(xs) == IF xs = <<>> THEN <<>> ELSE InsertSorted(Head(xs), SortInts(Tail(xs)))

\* The distinct elements of a sequence, in order of first appearance.
RECURSIVE Distinct(_)
Distinct(xs) ==
    IF xs = <<>> THEN <<>>
    ELSE LET front == Distinct(SubSeq(xs, 1, Len(xs) - 1))
             last == xs[Len(xs)]
         IN  IF last \in Range(front) THEN front ELSE Append(front, last)

RECURSIVE Flatten(_)
Flatten(seqs) == IF seqs = <<>> THEN <<>> ELSE Head(seqs) \o Flatten(Tail(seqs))

(***************************************************************************)
(* analysis/outlier_detection.py                                           *)
(*                                                                         *)
(* A threshold is the rational n/d (1.5 is 3/2); the data are integers, so *)
(* every comparison with a bound is decided exactly, cross-multiplied.     *)
(***************************************************************************)
Rat(n, d) == [n |-> n, d |-> d]

\* 4 * Series.quantile(q4 / 4) with linear interpolation, xs sorted
Quantile4(xs, q4) ==
    LET h == (Len(xs) - 1) * q4
        lo == (h \div 4) + 1
        fr == h % 4
    IN  IF fr = 0 THEN 4 * xs[lo] ELSE 4 * xs[lo] + fr * (xs[lo + 1] - xs[lo])

\* lines 56-60 and 66: x lies strictly outside [Q1 - k*IQR, Q3 + k*IQR]
IqrOutlier(xs, k, x) ==
    LET sorted == SortInts(xs)
        Q1 == Quantile4(sorted, 1)
        Q3 == Quantile4(sorted, 3)
        IQR == Q3 - Q1
    IN  \/ 4 * k.d * x < k.d * Q1 - k.n * IQR
        \/ 4 * k.d * x > k.d * Q3 + k.n * IQR

\* lines 61-64 and 66: x lies strictly outside [mean - k*std, mean + k*std],
\* std the sample standard deviation (NaN for one value: nothing is outside)
ZScoreOutlier(xs, k, x) ==
    LET n == Len(xs)
        S == SumSeq(xs)
        Q == SumSeq([i \in 1..n |-> xs[i] * xs[i]])
        dev == n * x - S
    IN  /\ n > 1
        /\ dev # 0
        /\ dev * dev * k.d * k.d * (n - 1) > k.n * k.n * n * (n * Q - S * S)

\* a variant whose bounds are not strict: a value on a bound is an outlier
IsOutlierInclusive(xs, s, x) ==
    LET k == s.threshold
        n == Len(xs)
        S == SumSeq(xs)
        Q == SumSeq([i \in 1..n |-> xs[i] * xs[i]])
        dev == n * x - S
        Q1 == Quantile4(SortInts(xs), 1)
        Q3 == Quantile4(SortInts(xs), 3)
    IN  IF s.method = "iqr"
        THEN \/ 4 * k.d * x <= k.d * Q1 - k.n * (Q3 - Q1)
             \/ 4 * k.d * x >= k.d * Q3 + k.n * (Q3 - Q1)
        ELSE /\ s.method = "z-score"
             /\ n > 1
             /\ dev * dev * k.d * k.d * (n - 1) >= k.n * k.n * n * (n * Q - S * S)

IsOutlier(xs, s, x) ==
    IF s.method = "iqr" THEN IqrOutlier(xs, s.threshold, x)
    ELSE IF s.method = "z-score" THEN ZScoreOutlier(xs, s.threshold, x)
    ELSE FALSE

\* str.upper() of the method names
Upper(method) ==
    IF method = "iqr" THEN "IQR" ELSE IF method = "z-score" THEN "Z-SCORE" ELSE method

OutlierRecord(group, index, column, value, method) ==
    [Group |-> group, OriginalRowIndex |-> index, Column |-> Lit(column),
     OutlierValue |-> value, Method |-> Lit(Upper(method))]

\* lines 37-89: the records of a target column whose numeric values,
\* missing ones dropped, are series
OutlierSeriesRecords(gname, series, col, s) ==
    LET found(outliers) ==
            IF outliers = <<>>
            THEN <<OutlierRecord(gname, NA, col, Lit("No outliers detected"), s.method)>>
            ELSE [i \in 1..Len(outliers) |->
                     OutlierRecord(gname, Num(outliers[i].index), col,
                                   outliers[i].value, s.method)]
    IN  IF series.items = <<>>
        THEN <<OutlierRecord(gname, NA, col, Lit("No numeric data for analysis"), s.method)>>
        ELSE found(SelectSeq(series.items, LAMBDA e : IsOutlier(Ints(series), s, e.value.n)))

\* a variant that passes over a target column the group does not have
OutlierColumnRecordsSkippingMissing(gname, gdf, col, s) ==
    IF ~HasColumn(gdf, col) THEN <<>>
    ELSE OutlierSeriesRecords(gname, DropNA(ToNumericSeries(ColumnSeries(gdf, col))), col, s)

\* lines 25-89: the records of one target column of one group
OutlierColumnRecords(gname, gdf, col, s) ==
    IF ~HasColumn(gdf, col)
    THEN <<OutlierRecord(gname, NA, col, Lit("Column not found"), s.method)>>
    ELSE OutlierSeriesRecords(gname, DropNA(ToNumericSeries(ColumnSeries(gdf, col))), col, s)

OutlierColumns == <<L("Column"), L("Original Row Index"), L("Outlier Value"), L("Method")>>

OutlierRow(column, index, value, method) ==
    [c \in Range(OutlierColumns) |->
        CASE c = L("Column") -> column
          [] c = L("Original Row Index") -> index
          [] c = L("Outlier Value") -> value
          [] OTHER -> method]

\* lines 91-125: one header row per column, then its records
OutlierPretty(records) ==
    IF records = <<>> THEN EmptyFrame(OutlierColumns)
    ELSE LET names == Distinct([i \in 1..Len(records) |-> records[i].Column])
             section(name) ==
                 LET sub == SelectSeq(records, LAMBDA r : r.Column = name) IN
                 <<OutlierRow(name, NA, NA, Str(<<>>))>>
                 \o [i \in 1..Len(sub) |->
                        OutlierRow(Str(<<>>), sub[i].OriginalRowIndex,
                                   sub[i].OutlierValue, sub[i].Method)]
         IN  Frame(OutlierColumns, Flatten([i \in 1..Len(names) |-> section(names[i])]))

\* lines 19-127, prep being what prepare_data_groups did. The assembly and
\* the return (lines 91-127) stand inside the loop over the groups: the
\* first group that is not empty is processed and returned; when there is
\* none the function falls off its end and returns None.
OutlierGroups(prep, s) ==
    IF prep.exc # "" THEN Raises(prep.exc, prep.msg, prep.df)
    ELSE LET nonempty == SelectSeq(prep.groups, LAMBDA g : ~IsEmpty(g.df))
             first(g) ==
                 IF \E j \in 1..Len(s.target_columns) :
                        Cardinality(Positions(g.df, s.target_columns[j])) > 1
                 THEN Raises("TypeError", "arg must be a list, tuple, 1-d array, or Series",
                             prep.df)
                 ELSE Returned(
                        ReportBlock(<<s.output_name>>,
                           OutlierPretty(Flatten([j \in 1..Len(s.target_columns) |->
                               OutlierColumnRecords(format_group_name(g.name), g.df,
                                                    s.target_columns[j], s)]))),
                        prep.df)
         IN  IF nonempty = <<>> THEN Returned(None, prep.df) ELSE first(Head(nonempty))

\* outlier_detection.run
outlier_detection_run(table, s) == OutlierGroups(prepare_data_groups(table, s), s)

(***************************************************************************)
(* analysis/helpers.py: apply_transformations                              *)
(*                                                                         *)
(* A Transformation is [action, params]; params holds "delimiter" (the     *)
(* empty string when the key is absent or falsy) and "value" (Absent when  *)
(* the key is absent). A delimiter of the model is one symbol.             *)
(***************************************************************************)
Absent == [t |-> "absent", n |-> 0, d |-> 1, s |-> <<>>]

Params(delimiter, value) == [delimiter |-> delimiter, value |-> value]

Transformation(action, params) == [action |-> action, params |-> params]

NoParams == Params(<<>>, Absent)

\* str.split(delimiter) on one string
RECURSIVE SplitStr(_, _)
SplitStr(cs, delimiter) ==
    IF \A i \in 1..Len(cs) : cs[i] # delimiter[1] THEN <<cs>>
    ELSE LET i == CHOOSE k \in 1..Len(cs) :
                      cs[k] = delimiter[1] /\ \A m \in 1..(k - 1) : cs[m] # delimiter[1]
         IN  <<SubSeq(cs, 1, i - 1)>> \o SplitStr(SubSeq(cs, i + 1, Len(cs)), delimiter)

\* Series.astype(str): every cell becomes a string, the dtype object
AsTypeStrSeries(series) ==
    [dtype |-> "object",
     items |-> MapItems(series.items, LAMBDA v : Str(AsTypeStr(v, series.dtype)))]

\* line 78: .str.split(delimiter).explode(), the index label repeated
SplitAndExplode(series, delimiter) ==
    LET strs == AsTypeStrSeries(series).items
        pieces(e) == LET toks == SplitStr(e.value.s, delimiter) IN
                     [j \in 1..Len(toks) |-> [index |-> e.index, value |-> Str(toks[j])]]
    IN  [dtype |-> "object", items |-> Flatten([i \in 1..Len(strs) |-> pieces(strs[i])])]

\* line 83: .str.split(delimiter).str[0]
ToRootNode(series, delimiter) ==
    [dtype |-> "object",
     items |-> MapItems(AsTypeStrSeries(series).items,
                        LAMBDA v : Str(Head(SplitStr(v.s, delimiter))))]

\* str.strip() on one string: the blanks at both ends are removed
RECURSIVE Strip(_)
Strip(cs) ==
    IF cs = <<>> THEN cs
    ELSE IF Head(cs) = " " THEN Strip(Tail(cs))
    ELSE IF cs[Len(cs)] = " " THEN Strip(SubSeq(cs, 1, Len(cs) - 1))
    ELSE cs

\* line 85: .astype(str).str.strip()
StripSeries(series) ==
    [dtype |-> "object",
     items |-> MapItems(AsTypeStrSeries(series).items, LAMBDA v : Str(Strip(v.s)))]

\* line 89: Series.fillna(params.get("value", 0))
FillNA(series, params) ==
    LET fill == IF params.value = Absent THEN Num(0) ELSE params.value
        items == MapItems(series.items, LAMBDA v : IF IsNA(v) THEN fill ELSE v)
    IN  [dtype |-> InferDType({items[i].value : i \in 1..Len(items)}), items |-> items]

SeriesOutcome(exc, msg, series) == [exc |-> exc, msg |-> msg, series |-> series]

\* lines 71-89: the loop over the transformations, from the k-th on
RECURSIVE ApplyActions(_, _, _)
ApplyActions(s, transformations, k) ==
    IF k > Len(transformations) THEN SeriesOutcome("", "", s)
    ELSE LET action == transformations[k].action
             params == transformations[k].params
         IN  IF action \in {"split_and_explode", "to_root_node"} /\ params.delimiter = <<>>
             THEN SeriesOutcome("ValueError", "requires a 'delimiter' in params.", s)
             ELSE ApplyActions(
                    CASE action = "split_and_explode" -> SplitAndExplode(s, params.delimiter)
                      [] action = "to_root_node" -> ToRootNode(s, params.delimiter)
                      [] action = "strip_whitespace" -> StripSeries(s)
                      [] action = "to_numeric" -> ToNumericSeries(s)
                      [] action = "fill_na" -> FillNA(s, params)
                      [] OTHER -> s,
                    transformations, k + 1)

\* one cell of the masks of lines 93-106; gt and lt compare the coerced number
PostMatch(c, dtype, f) ==
    IF f.operator \in {"gt", "lt"}
    THEN MatchCell(ToNumeric(c), "float64", f)
    ELSE MatchCell(c, dtype, f)

\* lines 91-106
RECURSIVE ApplyPostFilters(_, _, _)
ApplyPostFilters(s, post_filters, k) ==
    IF k > Len(post_filters) THEN SeriesOutcome("", "", s)
    ELSE LET f == post_filters[k] IN
         IF f.operator \in {"gt", "lt"} /\ IsStr(Scalar(f))
         THEN SeriesOutcome("TypeError", "not supported between instances", s)
         ELSE ApplyPostFilters(
                [s EXCEPT !.items = SelectSeq(s.items,
                                      LAMBDA e : PostMatch(e.value, s.dtype, f))],
                post_filters, k + 1)

apply_transformations(series, transformations, post_filters) ==
    LET post(r) == IF r.exc # "" THEN r ELSE ApplyPostFilters(r.series, post_filters, 1)
    IN  post(ApplyActions(series, transformations, 1))

(***************************************************************************)
(* Result tables: the DataFrame operations the handlers use.               *)
(***************************************************************************)
RECURSIVE GCD(_, _)
GCD(a, b) == IF b = 0 THEN a ELSE GCD(b, a % b)

Abs(k) == IF k < 0 THEN -k ELSE k

\* the number a/b (b > 0) in lowest terms
Frac(a, b) ==
    LET g == GCD(Abs(a), b) IN
    [t |-> "num", n |-> a \div g, d |-> b \div g, s |-> <<>>]

\* round(a/b, 2), the half rounded to even
Round2(a, b) ==
    LET q == (100 * a) \div b
        r == (100 * a) % b
        h == IF 2 * r > b THEN q + 1
             ELSE IF 2 * r = b THEN q + (q % 2)
             ELSE q
    IN  Frac(h, 100)

\* the elements of a finite set in the order of a strict total order
SortBy(S, Less(_, _)) ==
    [i \in 1..Cardinality(S) |->
        CHOOSE x \in S : Cardinality({y \in S : Less(y, x)}) = i - 1]

Row(columns, Value(_)) == [c \in Range(columns) |-> Value(c)]

\* pd.DataFrame({label: [value]})
OneCell(label, value) == Frame(<<label>>, <<Row(<<label>>, LAMBDA c : value)>>)

\* result_df[label] = value, a scalar
SetColumn(frame, label, value) ==
    LET columns == IF label \in Range(frame.columns) THEN frame.columns
                   ELSE Append(frame.columns, label)
    IN  Frame(columns,
              [i \in 1..Len(frame.rows) |->
                  Row(columns, LAMBDA c : IF c = label THEN value ELSE frame.rows[i][c])])

\* row.get(label, default)
Get(row, label, default) == IF label \in DOMAIN row THEN row[label] ELSE default

\* pd.concat(frames, ignore_index=True): the union of the columns in order
\* of first appearance, NaN where a frame has no such column
Concat(frames) ==
    LET columns == Distinct(Flatten([i \in 1..Len(frames) |-> frames[i].columns]))
        rows == Flatten([i \in 1..Len(frames) |-> frames[i].rows])
    IN  Frame(columns,
              [i \in 1..Len(rows) |-> Row(columns, LAMBDA c : Get(rows[i], c, NA))])

\* final_df[columns], every label present
Select(frame, columns) ==
    Frame(columns, [i \in 1..Len(frame.rows) |-> Row(columns, LAMBDA c : frame.rows[i][c])])

\* final_df.rename(columns={old: new})
Rename(frame, old, new) ==
    LET columns == [j \in 1..Len(frame.columns) |->
                       IF frame.columns[j] = old THEN new ELSE frame.columns[j]]
    IN  Frame(columns,
              [i \in 1..Len(frame.rows) |->
                  Row(columns, LAMBDA c : IF c = new THEN frame.rows[i][old]
                                           ELSE frame.rows[i][c])])

\* the elements of a sequence whose value is not in a set
Without(xs, S) == SelectSeq(xs, LAMBDA x : x \notin S)

\* the labels of the columns named by a list of field names
Labels(names) == [j \in 1..Len(names) |-> L(names[j])]

(***************************************************************************)
(* analysis/operations.py: the custom analysis                             *)
(***************************************************************************)
\* the numbers of a Series after pd.to_numeric(errors="coerce").dropna()
Numeric(series) == Ints(DropNA(ToNumericSeries(series)))

\* Series.value_counts(): [value, count] by descending count, equal counts
\* in order of first appearance
ValueCounts(items) ==
    LET values == Distinct([i \in 1..Len(items) |-> items[i].value])
        count(v) == Cardinality({i \in 1..Len(items) : items[i].value = v})
        order == SortBy(1..Len(values),
                        LAMBDA a, b : \/ count(values[a]) > count(values[b])
                                      \/ count(values[a]) = count(values[b]) /\ a < b)
    IN  [i \in 1..Len(values) |->
            [value |-> values[order[i]], count |-> count(values[order[i]])]]

\* a variant that keeps the floors and hands out no remainder
_compute_percentages_floors_only(counts) ==
    LET total == SumSeq(counts)
    IN  [i \in 1..Len(counts) |-> IF total <= 0 THEN 0 ELSE (counts[i] * 100) \div total]

\* a variant of lines 259-264 that never moves on: the entry of the largest
\* fractional part takes the whole remainder
_compute_percentages_first_takes_all(counts) ==
    LET n == Len(counts)
        total == SumSeq(counts)
        floors == [i \in 1..n |-> (counts[i] * 100) \div total]
        fracs == [i \in 1..n |-> (counts[i] * 100) % total]
        order == SortBy(1..n, LAMBDA a, b : \/ fracs[a] > fracs[b]
                                            \/ fracs[a] = fracs[b] /\ a < b)
    IN  IF total <= 0 THEN [i \in 1..n |-> 0]
        ELSE [i \in 1..n |-> floors[i] + (IF order[1] = i THEN 100 - SumSeq(floors) ELSE 0)]

\* lines 239-266: integer percentages that sum to 100. The floors first; the
\* remainder is handed out one point at a time, cycling over the entries
\* by descending fractional part.
_compute_percentages(counts) ==
    LET n == Len(counts)
        total == SumSeq(counts)
        floors == [i \in 1..n |-> (counts[i] * 100) \div total]
        fracs == [i \in 1..n |-> (counts[i] * 100) % total]
        remainder == 100 - SumSeq(floors)
        order == SortBy(1..n, LAMBDA a, b : \/ fracs[a] > fracs[b]
                                            \/ fracs[a] = fracs[b] /\ a < b)
        rank(i) == CHOOSE k \in 1..n : order[k] = i
        extra(i) == (remainder \div n) + (IF rank(i) <= remainder % n THEN 1 ELSE 0)
    IN  IF total <= 0 THEN [i \in 1..n |-> 0]
        ELSE [i \in 1..n |-> floors[i] + extra(i)]

\* lines 269-281
_op_average(series) ==
    LET mean(xs) == IF xs = <<>> THEN NA ELSE Round2(SumSeq(xs), Len(xs))
    IN  OneCell(L("Average"), mean(Numeric(series)))

\* lines 284-296
_op_sum(series) ==
    LET total(xs) == IF xs = <<>> THEN NA ELSE Num(SumSeq(xs))
    IN  OneCell(L("Sum"), total(Numeric(series)))

\* Series.median() of integers: the middle value, or the mean of the two
MedianOf(xs) ==
    LET n == Len(xs)
        middle(sorted) ==
            IF n % 2 = 1 THEN Num(sorted[(n + 1) \div 2])
            ELSE Frac(sorted[n \div 2] + sorted[(n \div 2) + 1], 2)
    IN  middle(SortInts(xs))

\* lines 299-318; the custom steps of the model target no column of dates,
\* so the datetime fallback of lines 311-316 finds nothing
_op_median(series) ==
    LET median(xs) == IF xs = <<>> THEN NA ELSE MedianOf(xs)
    IN  OneCell(L("Median"), median(Numeric(DropNA(series))))

DuplicateColumns == <<L("Duplicates"), L("Instances")>>

\* lines 321-343
_op_duplicate_count(series) ==
    LET frame(dupes) ==
            Frame(DuplicateColumns,
                  [i \in 1..Len(dupes) |->
                      Row(DuplicateColumns,
                          LAMBDA c : IF c = L("Duplicates") THEN dupes[i].value
                                     ELSE Num(dupes[i].count))])
    IN  frame(SelectSeq(ValueCounts(AsTypeStrSeries(DropNA(series)).items),
                        LAMBDA e : e.count > 1))

DistributionColumns == <<L(""), L("%"), L("Count")>>

\* lines 346-373
_op_distribution(series) ==
    LET frame(dtype, counts, pct) ==
            Frame(DistributionColumns,
                  [i \in 1..Len(counts) |->
                      Row(DistributionColumns,
                          LAMBDA c : CASE c = L("") -> Str(AsTypeStr(counts[i].value, dtype))
                                       [] c = L("%") -> Str(IntStr(pct[i]) \o <<"%">>)
                                       [] OTHER -> Num(counts[i].count))])
        counted(dtype, counts) ==
            frame(dtype, counts,
                  _compute_percentages([i \in 1..Len(counts) |-> counts[i].count]))
    IN  counted(series.dtype, ValueCounts(DropNA(series).items))

\* lines 376-395: np.sort of the unique values; a mix of str and numbers
\* cannot be ordered (TypeError) and is sorted as strings
_op_list_unique_values(series) ==
    LET s == DropNA(series)
        unique == {s.items[i].value : i \in 1..Len(s.items)}
        mixed == (\E c \in unique : IsStr(c)) /\ (\E c \in unique : IsNum(c))
        values == IF mixed THEN {Str(AsTypeStr(c, s.dtype)) : c \in unique} ELSE unique
        sorted == SortBy(values, CellLess)
    IN  Frame(<<L("Unique Value")>>,
              [i \in 1..Len(sorted) |-> Row(<<L("Unique Value")>>, LAMBDA c : sorted[i])])

\* lines 35-42
op_handlers == {"average", "sum", "median", "distribution", "duplicate_count",
                "list_unique_values"}

OpHandler(op, series) ==
    CASE op = "average" -> _op_average(series)
      [] op = "sum" -> _op_sum(series)
      [] op = "median" -> _op_median(series)
      [] op = "distribution" -> _op_distribution(series)
      [] op = "duplicate_count" -> _op_duplicate_count(series)
      [] OTHER -> _op_list_unique_values(series)

FrameOutcome(exc, msg, frame) == [exc |-> exc, msg |-> msg, frame |-> frame]

\* the first outcome of a sequence that is an exception, if any
FirstRaise(outcomes) ==
    LET bad == SelectSeq(outcomes, LAMBDA o : o.exc # "") IN
    IF bad = <<>> THEN FrameOutcome("", "", EmptyFrame(<<>>)) ELSE Head(bad)

ErrorRow(group, column, message) ==
    Frame(<<L("Group"), L("Column"), L("Error")>>,
          <<Row(<<L("Group"), L("Column"), L("Error")>>,
                LAMBDA c : CASE c = L("Group") -> group
                             [] c = L("Column") -> Lit(column)
                             [] OTHER -> Lit(message))>>)

\* lines 57-70 and 104-106: result_df[field_name] = field_value
RECURSIVE SetGroupFields(_, _, _, _)
SetGroupFields(frame, group_fields, raw_values, k) ==
    IF k > Len(group_fields) THEN frame
    ELSE SetGroupFields(
            SetColumn(frame, L(group_fields[k]),
                      IF k <= Len(raw_values) THEN raw_values[k] ELSE NA),
            group_fields, raw_values, k + 1)

\* lines 100-108: the frame of one target column of one group, result_df
\* being what the operation returned
CustomResult(g, col_name, s, result_df) ==
    LET multi_context == s.group_by # <<>> \/ Len(s.target_columns) > 1
        include_group_fields == multi_context /\ s.operation \in {"average", "sum", "median"}
        tagged(frame) == SetColumn(SetColumn(frame, L("Group"), format_group_name(g.name)),
                                   L("Column"), Lit(col_name))
    IN  IF ~multi_context THEN result_df
        ELSE IF include_group_fields /\ s.group_by # <<>>
        THEN SetGroupFields(tagged(result_df), s.group_by, g.name, 1)
        ELSE tagged(result_df)

\* lines 96-108, t being what apply_transformations did
CustomTransformed(g, col_name, s, t) ==
    IF t.exc # "" THEN FrameOutcome(t.exc, t.msg, EmptyFrame(<<>>))
    ELSE FrameOutcome("", "", CustomResult(g, col_name, s, OpHandler(s.operation, t.series)))

\* lines 77-108: one target column of one group
CustomColumn(g, col_name, s) ==
    IF ~HasColumn(g.df, col_name)
    THEN FrameOutcome("", "", ErrorRow(format_group_name(g.name), col_name, "Column not found"))
    ELSE IF Cardinality(Positions(g.df, col_name)) > 1
    THEN FrameOutcome("TypeError", "apply_transformations expects a pandas Series",
                      EmptyFrame(<<>>))
    ELSE CustomTransformed(g, col_name, s,
            apply_transformations(ColumnSeries(g.df, col_name), s.transformations,
                                  s.post_transformation_filters))

\* final_df.groupby(["Group", "Column"], sort=False): the (Group, Column)
\* pairs in order of first appearance
Sections(frame) ==
    Distinct([i \in 1..Len(frame.rows) |->
                 <<frame.rows[i][L("Group")], frame.rows[i][L("Column")]>>])

\* lines 152-177 and 186-209: a header row per (Group, Column) section and
\* a detail row per row of the section, over the payload columns only
PrettySections(frame, payload) ==
    LET columns == <<L("Group"), L("Column")>> \o payload
        blank == Str(<<>>)
        section(p) ==
            LET sub == SelectSeq(frame.rows,
                                 LAMBDA r : <<r[L("Group")], r[L("Column")]>> = p)
            IN  <<Row(columns, LAMBDA c : CASE c = L("Group") -> p[1]
                                            [] c = L("Column") -> p[2]
                                            [] OTHER -> blank)>>
                \o [i \in 1..Len(sub) |->
                       Row(columns, LAMBDA c : IF c \in {L("Group"), L("Column")} THEN blank
                                                ELSE Get(sub[i], c, blank))]
        secs == Sections(frame)
    IN  Frame(columns, Flatten([i \in 1..Len(secs) |-> section(secs[i])]))

\* lines 128-133
MetricLabel(op, target_label) ==
    <<CASE op = "average" -> "Average of"
        [] op = "sum" -> "Sum of"
        [] OTHER -> "Median of",
      " ", target_label>>

\* lines 126-150: the one-target grouped table of average, sum and median
CustomGrouped(final_df, s) ==
    LET group_labels == Labels(s.group_by)
        metric_cols == Without(final_df.columns,
                               {L("Group"), L("Column")} \cup Range(group_labels))
        new_name == MetricLabel(s.operation, s.target_columns[1])
        selected(renamed, metrics) ==
            IF \E c \in Range(group_labels) : c \notin Range(renamed.columns)
            THEN FrameOutcome("KeyError", "not in index", EmptyFrame(<<>>))
            ELSE FrameOutcome("", "", Select(renamed, group_labels \o metrics))
    IN  IF metric_cols = <<>> THEN selected(final_df, <<>>)
        ELSE selected(Rename(final_df, metric_cols[1], new_name),
                      <<new_name>> \o Tail(metric_cols))

\* lines 120-231: the table of the block, final_df being the concatenation
\* of the results, or the KeyError of line 140
CustomFinal(final_df, s) ==
    LET op == s.operation
        multi_context == s.group_by # <<>> \/ Len(s.target_columns) > 1
        include_group_fields == multi_context /\ op \in {"average", "sum", "median"}
        has_context == {L("Group"), L("Column")} \subseteq Range(final_df.columns)
        ordered == SelectSeq(Distinct(<<L("Group"), L("Column")>>
                                      \o (IF include_group_fields THEN Labels(s.group_by)
                                          ELSE <<>>)),
                             LAMBDA c : c \in Range(final_df.columns))
    IN  IF include_group_fields /\ s.group_by # <<>> /\ Len(s.target_columns) = 1
           /\ has_context
        THEN CustomGrouped(final_df, s)
        ELSE IF multi_context /\ op = "distribution" /\ has_context
        THEN FrameOutcome("", "", PrettySections(final_df, DistributionColumns))
        ELSE IF multi_context /\ op = "duplicate_count" /\ has_context
        THEN FrameOutcome("", "", PrettySections(final_df, DuplicateColumns))
        ELSE IF multi_context /\ has_context
        THEN FrameOutcome("", "",
                Select(final_df, ordered \o Without(final_df.columns, Range(ordered))))
        ELSE FrameOutcome("", "", final_df)

\* lines 110-231: the final DataFrame, or the KeyError of line 140
CustomAssemble(frames, s) ==
    IF frames = <<>>
    THEN FrameOutcome("", "", OneCell(L("Message"), Lit("No data produced for this analysis")))
    ELSE CustomFinal(Concat(frames), s)

\* a title that does not name the step
ErrorTitleWithoutName(output_name) == <<"Error in step">>

ErrorTitle(output_name) == <<"Error in step: ", output_name>>

\* lines 110-233, outcomes being what the loops over the groups and the
\* target columns did
CustomBlock(outcomes, s, table) ==
    LET block(final) ==
            IF final.exc # "" THEN Raises(final.exc, final.msg, table)
            ELSE Returned(ReportBlock(<<s.output_name>>, final.frame), table)
        raised(bad) ==
            IF bad.exc # "" THEN Raises(bad.exc, bad.msg, table)
            ELSE block(CustomAssemble([i \in 1..Len(outcomes) |-> outcomes[i].frame], s))
    IN  raised(FirstRaise(outcomes))

\* lines 44-233, prep being what prepare_data_groups did
CustomGroups(prep, s) ==
    IF prep.exc # "" THEN Raises(prep.exc, prep.msg, prep.df)
    ELSE LET nonempty == SelectSeq(prep.groups, LAMBDA g : ~IsEmpty(g.df)) IN
         CustomBlock(Flatten([i \in 1..Len(nonempty) |->
                         [j \in 1..Len(s.target_columns) |->
                             CustomColumn(nonempty[i], s.target_columns[j], s)]]),
                     s, prep.df)

\* operations.run
custom_run(table, s) ==
    IF s.operation \notin op_handlers
    THEN Returned(ReportBlock(ErrorTitle(s.output_name),
                              OneCell(L("Error"), Lit("Unknown custom operation"))),
                  table)
    ELSE CustomGroups(prepare_data_groups(table, s), s)

(***************************************************************************)
(* analysis/crosstab.py                                                    *)
(*                                                                         *)
(* A ColumnTransformation is [column_name, transformations].               *)
(***************************************************************************)
ColumnTransformation(column_name, transformations) ==
    [column_name |-> column_name, transformations |-> transformations]

\* the actions of every transformation of a list of column transformations
ActionsOf(column_transformations) ==
    UNION {{ct.transformations[k].action : k \in 1..Len(ct.transformations)} :
              ct \in Range(column_transformations)}

CrosstabAllowed == {"split_and_explode", "strip_whitespace"}

\* DataFrame.dropna() over a working frame whose rows are [index, cells]
DropNARows(rows) ==
    SelectSeq(rows, LAMBDA r : \A j \in 1..Len(r.cells) : ~IsNA(r.cells[j]))

WorkOutcome(exc, msg, work) == [exc |-> exc, msg |-> msg, work |-> work]

\* working_df[column_name] = series, the indexes being equal
AssignColumn(work, j, series) ==
    [columns |-> work.columns,
     dtypes |-> [m \in 1..Len(work.dtypes) |-> IF m = j THEN series.dtype ELSE work.dtypes[m]],
     rows |-> [i \in 1..Len(work.rows) |->
                 [index |-> work.rows[i].index,
                  cells |-> [m \in 1..Len(work.columns) |->
                               IF m = j THEN series.items[i].value
                               ELSE work.rows[i].cells[m]]]]]

\* lines 33-38: working_df[column_name] = apply_transformations(...). The
\* assignment aligns the new Series on the frame's index: a Series whose
\* index differs and repeats a label cannot be reindexed (ValueError).
RECURSIVE CrosstabTransform(_, _, _)
CrosstabTransform(work, column_transformations, k) ==
    IF k > Len(column_transformations) THEN WorkOutcome("", "", work)
    ELSE LET ct == column_transformations[k]
             assigned(t) ==
                 IF t.exc # "" THEN WorkOutcome(t.exc, t.msg, work)
                 ELSE IF work.rows = <<>>
                 THEN CrosstabTransform(work, column_transformations, k + 1)
                 ELSE IF [i \in 1..Len(t.series.items) |-> t.series.items[i].index]
                         # [i \in 1..Len(work.rows) |-> work.rows[i].index]
                 THEN WorkOutcome("ValueError",
                                  "cannot reindex on an axis with duplicate labels", work)
                 ELSE CrosstabTransform(
                         AssignColumn(work, Pos(work, ct.column_name), t.series),
                         column_transformations, k + 1)
         IN  IF ~HasColumn(work, ct.column_name)
             THEN CrosstabTransform(work, column_transformations, k + 1)
             ELSE IF Cardinality(Positions(work, ct.column_name)) > 1
             THEN WorkOutcome("TypeError", "apply_transformations expects a pandas Series", work)
             ELSE assigned(apply_transformations(ColumnSeries(work, ct.column_name),
                                                 ct.transformations, <<>>))

\* lines 49-64: pd.crosstab(margins=True), the percentages, reset_index()
CrosstabTable(work, s) ==
    LET ji == Pos(work, s.index_column)
        jc == Pos(work, s.column_to_compare)
        n == Len(work.rows)
        index_values == SortBy({work.rows[i].cells[ji] : i \in 1..n}, CellLess)
        compare_values == SortBy({work.rows[i].cells[jc] : i \in 1..n}, CellLess)
        All == Lit("All")
        count(a, b) == Cardinality({i \in 1..n :
                          /\ a \in {All, work.rows[i].cells[ji]}
                          /\ b \in {All, work.rows[i].cells[jc]}})
        shown(a, b) ==
            CASE s.show_percentages = "index" -> Frac(count(a, b), count(a, All))
              [] s.show_percentages = "columns" -> Frac(count(a, b), count(All, b))
              [] s.show_percentages = "all" -> Frac(count(a, b), n)
              [] OTHER -> Num(count(a, b))
        label(b) == IF b = All THEN L("All") ELSE AsTypeStr(b, work.dtypes[jc])
        heads == Append(compare_values, All)
        columns == <<L(s.index_column)>> \o [m \in 1..Len(heads) |-> label(heads[m])]
        sides == Append(index_values, All)
    IN  Frame(columns,
              [i \in 1..Len(sides) |->
                  Row(columns,
                      LAMBDA c : IF c = L(s.index_column) THEN sides[i]
                                 ELSE shown(sides[i],
                                            CHOOSE b \in Range(heads) : label(b) = c))])

\* line 30: group_df[[index_column, column_to_compare]].dropna(); a name
\* selects every column that bears it
CrosstabPicked(gdf, s) ==
    LET picked(selected) ==
            [columns |-> [m \in 1..Len(selected) |-> gdf.columns[selected[m]]],
             dtypes |-> [m \in 1..Len(selected) |-> gdf.dtypes[selected[m]]],
             rows |-> DropNARows([i \in 1..Len(gdf.rows) |->
                         [index |-> gdf.rows[i].index,
                          cells |-> [m \in 1..Len(selected) |->
                                       gdf.rows[i].cells[selected[m]]]]])]
    IN  picked(Flatten([j \in 1..2 |->
                  LET name == <<s.index_column, s.column_to_compare>>[j] IN
                  SortBy(Positions(gdf, name), LAMBDA a, b : a < b)]))

\* lines 33-66, picked being the working frame of line 30
CrosstabWork(g, s, picked) ==
    LET table(t) ==
            IF t.exc # "" THEN FrameOutcome(t.exc, t.msg, EmptyFrame(<<>>))
            ELSE IF Cardinality(Range(picked.columns)) < Len(picked.columns)
            THEN FrameOutcome("ValueError", "DataFrame columns must be unique",
                              EmptyFrame(<<>>))
            ELSE IF t.work.rows = <<>> THEN FrameOutcome("", "", EmptyFrame(<<>>))
            ELSE FrameOutcome("", "",
                   SetColumn(CrosstabTable(t.work, s), L("Group"), format_group_name(g.name)))
    IN  table(CrosstabTransform(picked, s.column_transformations, 1))

\* lines 25-66: one group that is not empty
CrosstabGroup(g, s) ==
    IF ~HasColumn(g.df, s.index_column) \/ ~HasColumn(g.df, s.column_to_compare)
    THEN FrameOutcome("KeyError", "not in index", EmptyFrame(<<>>))
    ELSE CrosstabWork(g, s, CrosstabPicked(g.df, s))

\* lines 68-75, outcomes being what the loop over the groups did
CrosstabBlock(outcomes, s, table) ==
    LET block(frames) ==
            IF frames = <<>> THEN EmptyFrame(<<L("Group"), L("Data")>>)
            ELSE LET final_df == Concat(frames) IN
                 Select(final_df, <<L("Group")>> \o Without(final_df.columns, {L("Group")}))
        raised(bad) ==
            IF bad.exc # "" THEN Raises(bad.exc, bad.msg, table)
            ELSE Returned(
                   ReportBlock(<<s.output_name>>,
                      block(SelectSeq([i \in 1..Len(outcomes) |-> outcomes[i].frame],
                                      LAMBDA f : f.columns # <<>>))),
                   table)
    IN  raised(FirstRaise(outcomes))

\* lines 23-75, prep being what prepare_data_groups did
CrosstabGroups(prep, s) ==
    IF prep.exc # "" THEN Raises(prep.exc, prep.msg, prep.df)
    ELSE LET nonempty == SelectSeq(prep.groups, LAMBDA g : ~IsEmpty(g.df)) IN
         CrosstabBlock([i \in 1..Len(nonempty) |-> CrosstabGroup(nonempty[i], s)], s, prep.df)

\* crosstab.run
crosstab_run(table, s) ==
    IF ActionsOf(s.column_transformations) \ CrosstabAllowed # {}
    THEN Raises("ValueError", "is not supported by Crosstab Analysis.", table)
    ELSE CrosstabGroups(prepare_data_groups(table, s), s)

(***************************************************************************)
(* analysis/summary_stats.py                                               *)
(***************************************************************************)
SummaryAllowed == {"to_numeric", "fill_na", "split_and_explode", "strip_whitespace"}

\* round(sqrt(a/b), 2) for a >= 0, b > 0: the h with (h - 1/2)^2 <= 10^4 a/b
\* < (h + 1/2)^2, in hundredths
RoundSqrt2(a, b) ==
    IF a = 0 THEN Num(0)
    ELSE LET h == CHOOSE k \in 0..(100 * a + 1) :
                      /\ (2 * k - 1) * (2 * k - 1) * b <= 40000 * a
                      /\ 40000 * a < (2 * k + 1) * (2 * k + 1) * b
         IN  Frac(h, 100)

\* lines 156-160: Series.describe() of integers, rounded to 2 decimals
Describe(xs) ==
    LET n == Len(xs)
        S == SumSeq(xs)
        Q == SumSeq([i \in 1..n |-> xs[i] * xs[i]])
        stats(sorted) ==
            << <<"count", Num(n)>>,
               <<"mean", Round2(S, n)>>,
               <<"std", IF n = 1 THEN NA ELSE RoundSqrt2(n * Q - S * S, n * (n - 1))>>,
               <<"min", Num(sorted[1])>>,
               <<"25%", Round2(Quantile4(sorted, 1), 4)>>,
               <<"50%", Round2(Quantile4(sorted, 2), 4)>>,
               <<"75%", Round2(Quantile4(sorted, 3), 4)>>,
               <<"max", Num(sorted[n])>> >>
    IN  stats(SortInts(xs))

StatsColumns == <<L("Group"), L("Column"), L("Metric"), L("Value")>>

StatsRow(group, column, metric, value) ==
    Row(StatsColumns, LAMBDA c : CASE c = L("Group") -> group
                                   [] c = L("Column") -> column
                                   [] c = L("Metric") -> metric
                                   [] OTHER -> value)

\* variant of SummaryStats: a column with no number left is passed over
SummaryStatsSkippingEmpty(name, column, xs) ==
    LET rows(stats) ==
            <<StatsRow(name, column, Lit("Column"), column)>>
            \o [i \in 1..Len(stats) |->
                   StatsRow(name, column, Lit(stats[i][1]), stats[i][2])]
    IN  IF xs = <<>> THEN <<>> ELSE rows(Describe(xs))

\* lines 143-205: the rows of a column whose numeric values are xs
SummaryStats(name, column, xs) ==
    LET rows(stats) ==
            <<StatsRow(name, column, Lit("Column"), column)>>
            \o [i \in 1..Len(stats) |->
                   StatsRow(name, column, Lit(stats[i][1]), stats[i][2])]
    IN  IF xs = <<>>
        THEN <<StatsRow(name, column, Lit("Error"), Lit("No numeric data for analysis"))>>
        ELSE rows(Describe(xs))

\* lines 100-205, t being what the column's transformations did
SummaryTransformed(name, column, t) ==
    IF t.exc # ""
    THEN <<StatsRow(name, column, Lit("Error"), Str(<<"Analysis failed: ", t.msg>>))>>
    ELSE SummaryStats(name, column, Numeric(t.series))

\* lines 80-205: the rows of one numeric column of one group. Everything
\* from line 100 on runs under `except Exception`: what is raised there
\* becomes an "Analysis failed" row.
SummaryColumn(g, col_name, s) ==
    LET details == SelectSeq(s.column_transformations, LAMBDA ct : ct.column_name = col_name)
        rows(name, column) ==
            IF ~HasColumn(g.df, col_name)
            THEN <<StatsRow(name, column, Lit("Error"), Lit("Column not found"))>>
            ELSE IF Cardinality(Positions(g.df, col_name)) > 1
            THEN <<StatsRow(name, column, Lit("Error"),
                            Str(<<"Analysis failed: ", "TypeError">>))>>
            ELSE SummaryTransformed(name, column,
                    IF details = <<>>
                    THEN SeriesOutcome("", "", ColumnSeries(g.df, col_name))
                    ELSE apply_transformations(ColumnSeries(g.df, col_name),
                                               Head(details).transformations, <<>>))
    IN  rows(format_group_name(g.name), Lit(col_name))

SummaryColumns == <<L("Column"), L("Metric"), L("Value")>>

\* lines 207-243: the Group column is dropped; a header row per column
\* name, in order of first appearance, then its rows with a blank Column
SummaryPretty(rows) ==
    LET names == Distinct([i \in 1..Len(rows) |-> rows[i][L("Column")]])
        blank == Str(<<>>)
        section(name) ==
            LET sub == SelectSeq(rows, LAMBDA r : r[L("Column")] = name) IN
            <<Row(SummaryColumns, LAMBDA c : IF c = L("Column") THEN name ELSE blank)>>
            \o [i \in 1..Len(sub) |->
                   Row(SummaryColumns, LAMBDA c : IF c = L("Column") THEN blank ELSE sub[i][c])]
    IN  Frame(SummaryColumns, Flatten([i \in 1..Len(names) |-> section(names[i])]))

\* lines 47-245, prep being what prepare_data_groups did
SummaryGroups(prep, s) ==
    LET nonempty == SelectSeq(prep.groups, LAMBDA g : ~IsEmpty(g.df))
        table(rows) == IF rows = <<>> THEN EmptyFrame(SummaryColumns) ELSE SummaryPretty(rows)
    IN  IF prep.exc = "ValueError"
        THEN Returned(
               ReportBlock(ErrorTitle(s.output_name),
                  Frame(StatsColumns,
                        <<StatsRow(Lit("N/A"), Lit("N/A"), Lit("Error"),
                                   Str(<<"Data preparation failed: ", prep.msg>>))>>)),
               prep.df)
        ELSE IF prep.exc # "" THEN Raises(prep.exc, prep.msg, prep.df)
        ELSE Returned(
               ReportBlock(<<s.output_name>>,
                  table(Flatten(Flatten([i \in 1..Len(nonempty) |->
                           [j \in 1..Len(s.numeric_columns) |->
                               SummaryColumn(nonempty[i], s.numeric_columns[j], s)]])))),
               prep.df)

\* summary_stats.run
summary_stats_run(table, s) ==
    IF ActionsOf(s.column_transformations) \ SummaryAllowed # {}
    THEN Raises("ValueError", "is not supported by Summary Statistics.", table)
    ELSE SummaryGroups(prepare_data_groups(table, s), s)

(***************************************************************************)
(* analysis/correlation.py                                                 *)
(*                                                                         *)
(* The three coefficients are square roots of rationals: the model keeps   *)
(* v^2 exactly, as the rational n/d with the sign of v, and holds v in a   *)
(* cell of type "root" (a "num" cell when the root is rational).           *)
(***************************************************************************)
RAdd(a, b) ==
    LET n == a.n * b.d + b.n * a.d
        d == a.d * b.d
        g == GCD(Abs(n), d)
    IN  Rat(n \div g, d \div g)

RECURSIVE RSum(_)
RSum(rs) == IF rs = <<>> THEN Rat(0, 1) ELSE RAdd(Head(rs), RSum(Tail(rs)))

IsSquare(k) == \E m \in 0..k : m * m = k

Sqrt(k) == CHOOSE m \in 0..k : m * m = k

\* the cell holding sign * sqrt(a/b), b > 0
RootCell(sign, a, b) ==
    LET g == GCD(a, b)
        n == a \div g
        d == b \div g
    IN  IF IsSquare(n) /\ IsSquare(d) THEN Frac(sign * Sqrt(n), Sqrt(d))
        ELSE [t |-> "root", n |-> sign * n, d |-> d, s |-> <<>>]

\* variant of AbsBelow: a value equal to the threshold is dropped as well
AbsBelowOrEqual(c, k) ==
    IF c.t = "root" THEN Abs(c.n) * k.d * k.d <= k.n * k.n * c.d
    ELSE Abs(c.n) * k.d <= k.n * c.d

\* line 91: abs(corr_val) < step.threshold, threshold the rational k
AbsBelow(c, k) ==
    IF k.n <= 0 THEN FALSE
    ELSE IF c.t = "root" THEN Abs(c.n) * k.d * k.d < k.n * k.n * c.d
    ELSE Abs(c.n) * k.d < k.n * c.d

\* Series.corr (Pearson) of two aligned integer sequences; NaN when either
\* is constant
Pearson(xs, ys) ==
    LET n == Len(xs)
        C == n * SumSeq([i \in 1..n |-> xs[i] * ys[i]]) - SumSeq(xs) * SumSeq(ys)
        Vx == n * SumSeq([i \in 1..n |-> xs[i] * xs[i]]) - SumSeq(xs) * SumSeq(xs)
        Vy == n * SumSeq([i \in 1..n |-> ys[i] * ys[i]]) - SumSeq(ys) * SumSeq(ys)
    IN  IF Vx = 0 \/ Vy = 0 THEN NA
        ELSE RootCell(IF C < 0 THEN -1 ELSE 1, C * C, Vx * Vy)

\* variant of cramers_v: chi2/n is divided by the number of columns of the
\* contingency table less one, not by the smaller of the two dimensions
cramers_v_by_columns(xs, ys) ==
    LET n == Len(xs)
        rows == SortBy(Range(xs), CellLess)
        cols == SortBy(Range(ys), CellLess)
        O(a, b) == Cardinality({i \in 1..n : xs[i] = a /\ ys[i] = b})
        R(a) == Cardinality({i \in 1..n : xs[i] = a})
        K(b) == Cardinality({i \in 1..n : ys[i] = b})
        terms == Flatten([i \in 1..Len(rows) |->
                    [j \in 1..Len(cols) |->
                        Rat(O(rows[i], cols[j]) * O(rows[i], cols[j]),
                            R(rows[i]) * K(cols[j]))]])
        phi2 == RAdd(RSum(terms), Rat(-1, 1))
        m == Len(cols) - 1
    IN  IF m = 0 THEN NA ELSE RootCell(1, phi2.n, phi2.d * m)

\* helpers.py lines 121-145: chi2/n is the sum of O^2/(row total * column
\* total) minus 1; a table with one row or one column gives 0/0, NaN
cramers_v(xs, ys) ==
    LET n == Len(xs)
        rows == SortBy(Range(xs), CellLess)
        cols == SortBy(Range(ys), CellLess)
        O(a, b) == Cardinality({i \in 1..n : xs[i] = a /\ ys[i] = b})
        R(a) == Cardinality({i \in 1..n : xs[i] = a})
        K(b) == Cardinality({i \in 1..n : ys[i] = b})
        terms == Flatten([i \in 1..Len(rows) |->
                    [j \in 1..Len(cols) |->
                        Rat(O(rows[i], cols[j]) * O(rows[i], cols[j]),
                            R(rows[i]) * K(cols[j]))]])
        phi2 == RAdd(RSum(terms), Rat(-1, 1))
        m == IF Len(cols) < Len(rows) THEN Len(cols) - 1 ELSE Len(rows) - 1
    IN  IF m = 0 THEN NA ELSE RootCell(1, phi2.n, phi2.d * m)

\* lines 9-40: eta^2 = ss_between / ss_total
correlation_ratio(categories, values) ==
    LET n == Len(values)
        S == SumSeq(values)
        Q == SumSeq([i \in 1..n |-> values[i] * values[i]])
        cats == SortBy(Range(categories), CellLess)
        members(c) == SelectSeq([i \in 1..n |-> IF categories[i] = c THEN values[i] ELSE -1],
                                LAMBDA v : v # -1)
        between == RAdd(RSum([k \in 1..Len(cats) |->
                                LET vs == members(cats[k]) IN
                                Rat(SumSeq(vs) * SumSeq(vs), Len(vs))]),
                        Rat(-(S * S), n))
    IN  IF n * Q - S * S <= 0 THEN NA
        ELSE RootCell(1, between.n * n, between.d * (n * Q - S * S))

\* itertools.combinations(columns, 2)
Combinations2(columns) ==
    Flatten([i \in 1..Len(columns) |->
        [j \in 1..(Len(columns) - i) |-> <<columns[i], columns[i + j]>>]])

CorrelationColumns ==
    <<L("Group"), L("Column 1"), L("Column 2"), L("Correlation Type"), L("Correlation Value")>>

\* lines 64-89: the coefficient of two aligned columns and its name
CorrelationValue(is_col1_cat, is_col2_cat, v1, v2) ==
    LET ints(vs) == [k \in 1..Len(vs) |-> vs[k].n] IN
    IF ~is_col1_cat /\ ~is_col2_cat
    THEN [type |-> "Pearson", value |-> Pearson(ints(v1), ints(v2))]
    ELSE IF is_col1_cat /\ is_col2_cat
    THEN [type |-> "Cramer's V", value |-> cramers_v(v1, v2)]
    ELSE IF is_col1_cat
    THEN [type |-> "Correlation ratio (eta)", value |-> correlation_ratio(v1, ints(v2))]
    ELSE [type |-> "Correlation ratio (eta)", value |-> correlation_ratio(v2, ints(v1))]

\* lines 59-102: the records of two columns of a group, places being the
\* rows where neither is missing
CorrelationAligned(g, pair, s, col1, col2, places) ==
    LET record(corr) ==
            IF IsNA(corr.value) \/ AbsBelow(corr.value, s.threshold) THEN <<>>
            ELSE <<Row(CorrelationColumns,
                       LAMBDA c : CASE c = L("Group") -> format_group_name(g.name)
                                    [] c = L("Column 1") -> Lit(pair[1])
                                    [] c = L("Column 2") -> Lit(pair[2])
                                    [] c = L("Correlation Type") -> Lit(corr.type)
                                    [] OTHER -> corr.value)>>
    IN  IF places = <<>> THEN <<>>
        ELSE record(CorrelationValue(col1.dtype = "object", col2.dtype = "object",
                        [k \in 1..Len(places) |-> col1.items[places[k]].value],
                        [k \in 1..Len(places) |-> col2.items[places[k]].value]))

\* lines 55-102: the records of one pair of columns of one group
CorrelationPair(g, pair, s) ==
    IF ~HasColumn(g.df, pair[1]) \/ ~HasColumn(g.df, pair[2]) THEN <<>>
    ELSE LET col1 == ColumnSeries(g.df, pair[1])
             col2 == ColumnSeries(g.df, pair[2])
         IN  CorrelationAligned(g, pair, s, col1, col2,
                SortBy({i \in 1..Len(g.df.rows) :
                           ~IsNA(col1.items[i].value) /\ ~IsNA(col2.items[i].value)},
                       LAMBDA a, b : a < b))

\* lines 47-117, prep being what prepare_data_groups did
CorrelationGroups(prep, s) ==
    IF prep.exc # "" THEN Raises(prep.exc, prep.msg, prep.df)
    ELSE LET nonempty == SelectSeq(prep.groups, LAMBDA g : ~IsEmpty(g.df))
             pairs == Combinations2(s.columns)
             records == Flatten(Flatten([i \in 1..Len(nonempty) |->
                           [j \in 1..Len(pairs) |-> CorrelationPair(nonempty[i], pairs[j], s)]]))
         IN  Returned(ReportBlock(<<s.output_name>>, Frame(CorrelationColumns, records)), prep.df)

\* correlation.run; the column names of the table are distinct
correlation_run(table, s) == CorrelationGroups(prepare_data_groups(table, s), s)

(***************************************************************************)
(* analysis/time_series.py                                                 *)
(*                                                                         *)
(* A timestamp is a day number, 2024-01-01 being day 1. The date strings   *)
(* of the model are "2024-01-01" .. "2024-01-09"; pd.to_datetime reads a   *)
(* number as nanoseconds since 1970-01-01, which for the numbers of the    *)
(* model is a time on that day (day EpochDay).                             *)
(***************************************************************************)
EpochDay == -19722

Timestamp(day) == [t |-> "timestamp", n |-> day, d |-> 1, s |-> <<>>]

Date(day) == [t |-> "date", n |-> day, d |-> 1, s |-> <<>>]

DatePrefix == <<"2", "0", "2", "4", "-", "0", "1", "-", "0">>

\* pd.to_datetime(errors="coerce") on one cell
ToDatetime(c) ==
    IF IsNum(c) THEN Timestamp(EpochDay)
    ELSE IF /\ IsStr(c)
            /\ Len(c.s) = 10
            /\ SubSeq(c.s, 1, 9) = DatePrefix
            /\ \E k \in 1..9 : c.s[10] = Digit(k)
    THEN Timestamp(CHOOSE k \in 1..9 : c.s[10] = Digit(k))
    ELSE NA

\* the label of the resampling bin of a day: the day itself (D), the Sunday
\* that ends its week (W), the last day of its month, quarter or year
BinLabel(frequency, day) ==
    LET base == IF day < 1 THEN EpochDay - 1 ELSE 0
        leap == IF day < 1 THEN 0 ELSE 1
        k == day - base
        \* 2024-01-07 and 1970-01-04 are Sundays
        sunday == IF day < 1 THEN 4 ELSE 7
    IN  CASE frequency = "D" -> day
          [] frequency = "W" -> base + sunday + 7 * ((k - sunday + 6) \div 7)
          [] frequency = "ME" -> base + 31
          [] frequency = "QE" -> base + 90 + leap
          [] OTHER -> base + 365 + leap

\* variant of Resample: the sum of a bin is its first value
ResampleTakingFirst(points, s) ==
    LET days == {points[i].day : i \in 1..Len(points)}
        lo == CHOOSE a \in days : \A b \in days : a <= b
        hi == CHOOSE a \in days : \A b \in days : b <= a
        labels == SortBy({BinLabel(s.frequency, day) : day \in lo..hi}, LAMBDA a, b : a < b)
        members(label) ==
            SelectSeq([i \in 1..Len(points) |->
                          IF BinLabel(s.frequency, points[i].day) = label
                          THEN points[i].value ELSE -1],
                      LAMBDA v : v # -1)
        agg(vs) == CASE s.metric = "sum" -> Num(IF vs = <<>> THEN 0 ELSE Head(vs))
                     [] s.metric = "count" -> Num(Len(vs))
                     [] OTHER -> IF vs = <<>> THEN NA ELSE Frac(SumSeq(vs), Len(vs))
        bins == [k \in 1..Len(labels) |->
                    [Timestamp |-> Timestamp(labels[k]), Value |-> agg(members(labels[k]))]]
    IN  SelectSeq(bins, LAMBDA b : ~IsNA(b.Value))

\* variant of Resample: fillna(0) whatever the metric, an empty bin of the
\* mean is reported as 0
ResampleFillingAll(points, s) ==
    LET days == {points[i].day : i \in 1..Len(points)}
        lo == CHOOSE a \in days : \A b \in days : a <= b
        hi == CHOOSE a \in days : \A b \in days : b <= a
        labels == SortBy({BinLabel(s.frequency, day) : day \in lo..hi}, LAMBDA a, b : a < b)
        members(label) ==
            SelectSeq([i \in 1..Len(points) |->
                          IF BinLabel(s.frequency, points[i].day) = label
                          THEN points[i].value ELSE -1],
                      LAMBDA v : v # -1)
        agg(vs) == CASE s.metric = "sum" -> Num(SumSeq(vs))
                     [] s.metric = "count" -> Num(Len(vs))
                     [] OTHER -> IF vs = <<>> THEN Num(0) ELSE Frac(SumSeq(vs), Len(vs))
    IN  [k \in 1..Len(labels) |->
            [Timestamp |-> Timestamp(labels[k]), Value |-> agg(members(labels[k]))]]

\* lines 112-121: the bins from the first to the last valid day, each with
\* the aggregate of its rows; an empty bin is 0 for sum and count, NaN (and
\* dropped) for the mean
Resample(points, s) ==
    LET days == {points[i].day : i \in 1..Len(points)}
        lo == CHOOSE a \in days : \A b \in days : a <= b
        hi == CHOOSE a \in days : \A b \in days : b <= a
        labels == SortBy({BinLabel(s.frequency, day) : day \in lo..hi}, LAMBDA a, b : a < b)
        members(label) ==
            SelectSeq([i \in 1..Len(points) |->
                          IF BinLabel(s.frequency, points[i].day) = label
                          THEN points[i].value ELSE -1],
                      LAMBDA v : v # -1)
        agg(vs) == CASE s.metric = "sum" -> Num(SumSeq(vs))
                     [] s.metric = "count" -> Num(Len(vs))
                     [] OTHER -> IF vs = <<>> THEN NA ELSE Frac(SumSeq(vs), Len(vs))
        bins == [k \in 1..Len(labels) |->
                    [Timestamp |-> Timestamp(labels[k]), Value |-> agg(members(labels[k]))]]
    IN  SelectSeq(bins, LAMBDA b : ~IsNA(b.Value))

TimePoint(timestamp, value) == [Timestamp |-> timestamp, Value |-> value]

\* lines 80-168: the rows of a group whose dates and values are converted
TimeSeriesConverted(dates, values, s) ==
    LET resampled(valid) ==
            IF valid = <<>>
            THEN <<TimePoint(Lit("N/A"),
                       Lit("No valid data after date/metric conversion and dropping NaNs."))>>
            ELSE Resample(valid, s)
    IN  resampled(SelectSeq([i \in 1..Len(dates) |->
                                [day |-> dates[i].value.n, value |-> values[i].value.n,
                                 ok |-> ~IsNA(dates[i].value) /\ ~IsNA(values[i].value)]],
                            LAMBDA p : p.ok))

\* lines 51-168: the rows of one group that is not empty. What is raised
\* under the try of line 78 becomes an "Analysis failed" row.
TimeSeriesGroup(g, s) ==
    LET missing == SelectSeq(<<s.date_column, s.metric_column>>,
                             LAMBDA c : ~HasColumn(g.df, c))
        error(message) == <<TimePoint(Lit("N/A"), message)>>
    IN  IF missing # <<>>
        THEN error(Str(<<"Missing required columns for time series: ">>
                       \o (IF Len(missing) = 2 THEN <<missing[1], ", ", missing[2]>>
                           ELSE missing)))
        ELSE IF s.date_column = s.metric_column
        THEN error(Str(<<"Analysis failed: ", "Column not found: ", s.metric_column>>))
        ELSE TimeSeriesConverted(
                MapItems(ColumnSeries(g.df, s.date_column).items, ToDatetime),
                MapItems(ColumnSeries(g.df, s.metric_column).items, ToNumeric), s)

TimeSeriesColumns == <<L("Column"), L("Timestamp"), L("Value")>>

\* lines 170-218: one header row, then the points; the Timestamp column is
\* turned into dates only when every cell of it is a timestamp
TimeSeriesPretty(points, s) ==
    LET all_ts == \A i \in 1..Len(points) : points[i].Timestamp.t = "timestamp"
        stamp(c) == IF all_ts THEN Date(c.n) ELSE c
        blank == Str(<<>>)
    IN  Frame(TimeSeriesColumns,
              <<Row(TimeSeriesColumns,
                    LAMBDA c : IF c = L("Column") THEN Lit(s.metric_column) ELSE blank)>>
              \o [i \in 1..Len(points) |->
                    Row(TimeSeriesColumns,
                        LAMBDA c : CASE c = L("Column") -> blank
                                     [] c = L("Timestamp") -> stamp(points[i].Timestamp)
                                     [] OTHER -> points[i].Value)])

\* lines 19-220, prep being what prepare_data_groups did
TimeSeriesGroups(prep, s) ==
    LET nonempty == SelectSeq(prep.groups, LAMBDA g : ~IsEmpty(g.df)) IN
    IF prep.exc = "ValueError"
    THEN Returned(
           ReportBlock(ErrorTitle(s.output_name),
              Frame(<<L("Group"), L("Timestamp"), L("Value")>>,
                    <<Row(<<L("Group"), L("Timestamp"), L("Value")>>,
                          LAMBDA c : IF c = L("Value")
                                     THEN Str(<<"Data preparation failed: ", prep.msg>>)
                                     ELSE Lit("N/A"))>>)),
           prep.df)
    ELSE IF prep.exc # "" THEN Raises(prep.exc, prep.msg, prep.df)
    ELSE Returned(
           ReportBlock(<<s.output_name>>,
              IF nonempty = <<>> THEN EmptyFrame(TimeSeriesColumns)
              ELSE TimeSeriesPretty(
                     Flatten([i \in 1..Len(nonempty) |-> TimeSeriesGroup(nonempty[i], s)]), s)),
           prep.df)

\* time_series.run; the column names of the table are distinct
time_series_run(table, s) == TimeSeriesGroups(prepare_data_groups(table, s), s)

(***************************************************************************)
(* analysis/key_driver.py                                                  *)
(*                                                                         *)
(* The numbers statsmodels computes are not modelled. The fit of a group   *)
(* is an input, [raises, pvalues]: whether OLS(...).fit() or summary2()    *)
(* raises, and the p-value of each term of the model (the constant first   *)
(* when there is one), a rational. An estimate is held in a cell of type   *)
(* "est" naming the quantity and the term.                                 *)
(***************************************************************************)
Estimate(quantity, term) == [t |-> "est", n |-> 0, d |-> 1, s |-> <<quantity>> \o term]

\* pd.get_dummies(drop_first=True) of one column: a column of strings gives
\* one indicator per level but the first; any other column is kept as it is
Dummies(work, name) ==
    LET j == Pos(work, name)
        levels == SortBy({work.rows[i].cells[j] : i \in 1..Len(work.rows)}, CellLess)
    IN  IF work.dtypes[j] # "object" THEN <<[label |-> L(name), column |-> name, level |-> NA]>>
        ELSE [k \in 1..(Len(levels) - 1) |->
                 [label |-> <<name, "_">> \o levels[k + 1].s, column |-> name,
                  level |-> levels[k + 1]]]

KeyDriverColumns == <<L("Feature"), L("Coefficient"), L("Standard Error"), L("P-value")>>

KeyDriverRow(group, feature, coefficient, error, pvalue) ==
    Row(<<L("Group")>> \o KeyDriverColumns,
        LAMBDA c : CASE c = L("Group") -> group
                     [] c = L("Feature") -> feature
                     [] c = L("Coefficient") -> coefficient
                     [] c = L("Standard Error") -> error
                     [] OTHER -> pvalue)

RatLess(a, b) == a.n * b.d < b.n * a.d

\* lines 100-127: the rows of a fitted group, model_terms the terms of its
\* model
KeyDriverRows(name, model_terms, s, fit) ==
    LET kept == SelectSeq([k \in 1..Len(model_terms) |-> k],
                    LAMBDA k : \/ s.include_intercept /\ k = 1
                               \/ RatLess(fit.pvalues[k], s.p_value_threshold))
    IN  [i \in 1..Len(kept) |->
            KeyDriverRow(name, Str(model_terms[kept[i]]),
                         Estimate("Coef.", model_terms[kept[i]]),
                         Estimate("Std.Err.", model_terms[kept[i]]),
                         Round2(fit.pvalues[kept[i]].n, fit.pvalues[kept[i]].d))]
        \o <<KeyDriverRow(name, Lit("R-squared"), Estimate("rsquared", <<>>), NA, NA)>>

\* a variant of lines 44-127 that fits a group of as many rows as features
\* plus one
KeyDriverModelAtThreshold(g, s, fit, rows1, terms) ==
    LET plain == {s.target_variable} \cup {terms[k].column : k \in {m \in 1..Len(terms) :
                                                                    IsNA(terms[m].level)}}
        rows2 == SelectSeq(rows1,
                    LAMBDA r : \A c \in plain : ~IsNA(ToNumeric(r.cells[Pos(g.df, c)])))
    IN  IF Len(rows2) < Len(terms) + 1 \/ fit.raises
        THEN [exc |-> "", msg |-> "", rows |-> <<>>]
        ELSE [exc |-> "", msg |-> "",
              rows |-> KeyDriverRows(format_group_name(g.name),
                          (IF s.include_intercept THEN <<L("const")>> ELSE <<>>)
                          \o [k \in 1..Len(terms) |-> terms[k].label],
                          s, fit)]

\* lines 44-127, rows1 being the rows of line 29 and terms the features of
\* the model: the numeric ones, then the indicators of line 40
KeyDriverModel(g, s, fit, rows1, terms) ==
    LET \* lines 52-57: a row stays when the target and every feature that is
        \* not an indicator convert to a number
        plain == {s.target_variable} \cup {terms[k].column : k \in {m \in 1..Len(terms) :
                                                                    IsNA(terms[m].level)}}
        rows2 == SelectSeq(rows1,
                    LAMBDA r : \A c \in plain : ~IsNA(ToNumeric(r.cells[Pos(g.df, c)])))
    IN  IF Len(rows2) <= Len(terms) + 1 \/ fit.raises
        THEN [exc |-> "", msg |-> "", rows |-> <<>>]
        ELSE [exc |-> "", msg |-> "",
              rows |-> KeyDriverRows(format_group_name(g.name),
                          (IF s.include_intercept THEN <<L("const")>> ELSE <<>>)
                          \o [k \in 1..Len(terms) |-> terms[k].label],
                          s, fit)]

\* lines 29-127, rows1 being the rows of line 29
KeyDriverEncoded(g, s, fit, rows1) ==
    LET numeric_features == SelectSeq(s.feature_columns,
                                      LAMBDA f : f \notin Range(s.categorical_features))
    IN  KeyDriverModel(g, s, fit, rows1,
            [k \in 1..Len(numeric_features) |->
                [label |-> L(numeric_features[k]), column |-> numeric_features[k],
                 level |-> NA]]
            \o Flatten([k \in 1..Len(s.categorical_features) |->
                          Dummies(WithRows(g.df, rows1), s.categorical_features[k])]))

\* lines 25-127: the rows of one group that is not empty, or the KeyError
\* of line 29 or 40
KeyDriverGroup(g, s, fit) ==
    LET all_cols == <<s.target_variable>> \o s.feature_columns IN
    IF \E k \in 1..Len(all_cols) : ~HasColumn(g.df, all_cols[k])
    THEN [exc |-> "KeyError", msg |-> "not in index", rows |-> <<>>]
    ELSE IF \E k \in 1..Len(s.categorical_features) :
                s.categorical_features[k] \notin Range(all_cols)
    THEN [exc |-> "KeyError", msg |-> "not in index", rows |-> <<>>]
    ELSE KeyDriverEncoded(g, s, fit,
            SelectSeq(g.df.rows,
                LAMBDA r : \A k \in 1..Len(all_cols) : ~IsNA(r.cells[Pos(g.df, all_cols[k])])))

\* lines 129-146, outcomes being what the loop over the groups did
KeyDriverBlock(outcomes, s, table) ==
    LET bad == SelectSeq(outcomes, LAMBDA o : o.exc # "")
        block(rows) ==
            IF rows = <<>> THEN EmptyFrame(KeyDriverColumns)
            ELSE IF Cardinality({rows[i][L("Group")] : i \in 1..Len(rows)}) > 1
            THEN Frame(<<L("Group")>> \o KeyDriverColumns, rows)
            ELSE Select(Frame(<<L("Group")>> \o KeyDriverColumns, rows), KeyDriverColumns)
    IN  IF bad # <<>> THEN Raises(Head(bad).exc, Head(bad).msg, table)
        ELSE Returned(
               ReportBlock(<<s.output_name>>,
                  block(Flatten([i \in 1..Len(outcomes) |-> outcomes[i].rows]))),
               table)

\* lines 18-146, prep being what prepare_data_groups did
KeyDriverGroups(prep, s, fit) ==
    IF prep.exc # "" THEN Raises(prep.exc, prep.msg, prep.df)
    ELSE LET nonempty == SelectSeq(prep.groups, LAMBDA g : ~IsEmpty(g.df)) IN
         KeyDriverBlock([i \in 1..Len(nonempty) |-> KeyDriverGroup(nonempty[i], s, fit)],
                        s, prep.df)

\* key_driver.run; the column names of the table are distinct
key_driver_run(table, s, fit) == KeyDriverGroups(prepare_data_groups(table, s), s, fit)

(***************************************************************************)
(* orchestrator.py                                                         *)
(*                                                                         *)
(* run_dynamic_analysis is a generator: calling it runs nothing; each      *)
(* next() of the consumer runs the body up to its next yield.              *)
(***************************************************************************)
ANALYSIS_HANDLERS ==
    {"custom", "summary_stats", "crosstab", "outlier_detection", "correlation",
     "time_series", "key_driver"}

\* handler(df, step), the handler ANALYSIS_HANDLERS holds for step.type
CallHandler(table, s, fit) ==
    CASE s.type = "custom" -> custom_run(table, s)
      [] s.type = "summary_stats" -> summary_stats_run(table, s)
      [] s.type = "crosstab" -> crosstab_run(table, s)
      [] s.type = "outlier_detection" -> outlier_detection_run(table, s)
      [] s.type = "correlation" -> correlation_run(table, s)
      [] s.type = "time_series" -> time_series_run(table, s)
      [] OTHER -> key_driver_run(table, s, fit)

ErrorBlock(output_name, message) ==
    ReportBlock(ErrorTitle(output_name), OneCell(L("Error"), Str(message)))

UnknownType(type) == <<"Unknown analysis type: '", type, "'">>

Unexpected == <<"An unexpected error occurred during this analysis step.">>

NotCalled(table) == Returned(None, table)

\* the items of an iteration that yields nothing when the handler raised
ItemsSkippingFailures(out, s) ==
    [called |-> TRUE, out |-> out, df |-> out.df,
     items |-> IF out.ret = "value" THEN <<out.value>> ELSE <<>>]

\* the same loop body, but an exception of the handler ends the iteration
\* without a yield
IterationSkippingFailures(table, s, fit) ==
    IF s.type \in ANALYSIS_HANDLERS
    THEN ItemsSkippingFailures(CallHandler(table, s, fit), s)
    ELSE [called |-> FALSE, out |-> NotCalled(table), df |-> table,
          items |-> <<ErrorBlock(s.output_name, UnknownType(s.type))>>]

\* lines 48-59: the yield after the handler's call, out being what the
\* handler did
Items(out, s) ==
    [called |-> TRUE, out |-> out, df |-> out.df,
     items |-> IF out.ret = "value" THEN <<out.value>>
               ELSE <<ErrorBlock(s.output_name, Unexpected)>>]

\* lines 37-59: one iteration of the loop, with the items it yields
Iteration(table, s, fit) ==
    IF s.type \in ANALYSIS_HANDLERS
    THEN Items(CallHandler(table, s, fit), s)
    ELSE [called |-> FALSE, out |-> NotCalled(table), df |-> table,
          items |-> <<ErrorBlock(s.output_name, UnknownType(s.type))>>]

Resumed(i, table, items, invoked_now, out) ==
    [idx |-> i, df |-> table, items |-> items, invoked |-> invoked_now, out |-> out]

\* a body that runs every remaining step when it is first resumed and hands
\* out the first item
RECURSIVE RunAllThenYield(_, _, _, _)
RunAllThenYield(table, steps, i, fit) ==
    LET after(it, rest) ==
            Resumed(rest.idx, rest.df, it.items,
                    (IF it.called THEN <<i + 1>> ELSE <<>>) \o rest.invoked, it.out)
        run(it) == after(it, RunAllThenYield(it.df, steps, i + 1, fit))
    IN  IF i = Len(steps) THEN Resumed(i, table, <<>>, <<>>, NotCalled(table))
        ELSE run(Iteration(table, steps[i + 1], fit))

\* one next(): the loop runs on from step i + 1 until an iteration yields
\* or the steps are exhausted
RECURSIVE RunUntilYield(_, _, _, _)
RunUntilYield(table, steps, i, fit) ==
    LET after(it, rest) ==
            Resumed(rest.idx, rest.df, rest.items,
                    (IF it.called THEN <<i + 1>> ELSE <<>>) \o rest.invoked, rest.out)
        run(it) ==
            IF it.items # <<>>
            THEN Resumed(i + 1, it.df, it.items, IF it.called THEN <<i + 1>> ELSE <<>>, it.out)
            ELSE after(it, RunUntilYield(it.df, steps, i + 1, fit))
    IN  IF i = Len(steps) THEN Resumed(i, table, <<>>, <<>>, NotCalled(table))
        ELSE run(Iteration(table, steps[i + 1], fit))

\* routers/reports.py, get_analysis_request: AnalysisRequest.model_validate
\* accepts a request whose steps each have the type and the fields of one
\* of the seven step models and whose transformation actions are among the
\* five of TransformationAction
TransformationAction ==
    {"split_and_explode", "to_root_node", "strip_whitespace", "to_numeric", "fill_na"}

StepActions(s) ==
    CASE s.type = "custom" ->
            {s.transformations[k].action : k \in 1..Len(s.transformations)}
      [] s.type \in {"summary_stats", "crosstab"} -> ActionsOf(s.column_transformations)
      [] OTHER -> {}

model_validate(steps) ==
    \A i \in 1..Len(steps) :
        /\ steps[i].type \in ANALYSIS_HANDLERS
        /\ StepActions(steps[i]) \subseteq TransformationAction

(***************************************************************************)
(* The inputs of the model.                                                *)
(***************************************************************************)
SeqsUpTo(S, n) == UNION {[1..k -> S] : k \in 0..n}

\* A column of the input tables: its name and the cells it may hold.
Col(name, cells) == [name |-> name, cells |-> cells]

TextCells == {Str(<<"b", ";", "a">>), Str(<<"b">>), NA}

NumCells == {Num(1), Num(2), NA}

\* the column lists of the input tables: a text and a numeric column; the
\* same with the numeric column's name duplicated; the text column alone
Layouts ==
    {<<Col("g", TextCells), Col("x", {Num(1), Num(2)})>>,
     <<Col("g", TextCells), Col("x", {Num(1)}), Col("x", {Num(2)})>>,
     <<Col("g", TextCells)>>}

RowsOver(layout) ==
    {r \in [1..Len(layout) -> UNION {layout[j].cells : j \in 1..Len(layout)}] :
        \A j \in 1..Len(layout) : r[j] \in layout[j].cells}

TablesOver(layout, n) ==
    {MakeTable([j \in 1..Len(layout) |-> layout[j].name], rs) :
        rs \in SeqsUpTo(RowsOver(layout), n)}

Tables == UNION {TablesOver(l, MaxRows) : l \in Layouts}

Filter(column, operator, value) ==
    [column |-> column, operator |-> operator, value |-> value]

FilterPool ==
    {Filter("g", "eq", <<Str(<<"b">>)>>),
     Filter("g", "neq", <<Str(<<"b">>)>>),
     Filter("x", "gt", <<Num(1)>>),
     Filter("x", "lt", <<Num(2)>>),
     Filter("g", "in", <<Str(<<"b", ";", "a">>)>>),
     Filter("g", "not_in", <<Str(<<"b", ";", "a">>)>>),
     Filter("g", "contains", <<Str(<<"a">>)>>)}

GroupBys == {<<>>, <<"g">>, <<"g", "x">>}

\* the BaseAnalysis part of a step
PrepSteps ==
    [output_name : {"prep"},
     filters : SeqsUpTo(FilterPool, MaxFilters),
     group_by : GroupBys]

NoStep == [output_name |-> "", filters |-> <<>>, group_by |-> <<>>]

NoResult == [exc |-> "", msg |-> "", applied |-> 0, groups |-> NoGroups, df |-> NoTable]

(***************************************************************************)
(* The steps of the seven kinds (schemas.py) and the inputs of the         *)
(* handlers and of the orchestrator.                                       *)
(***************************************************************************)
CustomAnalysis(name, filters, group_by, target_columns, transformations, operation) ==
    [type |-> "custom", output_name |-> name, filters |-> filters, group_by |-> group_by,
     target_columns |-> target_columns, transformations |-> transformations,
     operation |-> operation, post_transformation_filters |-> <<>>]

SummaryStatsAnalysis(name, filters, group_by, numeric_columns, column_transformations) ==
    [type |-> "summary_stats", output_name |-> name, filters |-> filters,
     group_by |-> group_by, numeric_columns |-> numeric_columns,
     column_transformations |-> column_transformations]

CrosstabAnalysis(name, filters, group_by, index_column, column_to_compare, column_transformations, show_percentages) ==
    [type |-> "crosstab", output_name |-> name, filters |-> filters, group_by |-> group_by,
     index_column |-> index_column, column_to_compare |-> column_to_compare,
     column_transformations |-> column_transformations,
     show_percentages |-> show_percentages]

OutlierDetectionAnalysis(name, filters, group_by, target_columns, method, threshold) ==
    [type |-> "outlier_detection", output_name |-> name, filters |-> filters,
     group_by |-> group_by, target_columns |-> target_columns, method |-> method,
     threshold |-> threshold]

KeyDriverAnalysis(name, filters, group_by, target_variable, feature_columns, categorical_features, include_intercept, p_value_threshold) ==
    [type |-> "key_driver", output_name |-> name, filters |-> filters, group_by |-> group_by,
     target_variable |-> target_variable, feature_columns |-> feature_columns,
     categorical_features |-> categorical_features,
     include_intercept |-> include_intercept, p_value_threshold |-> p_value_threshold]

TimeSeriesAnalysis(name, filters, group_by, metric_column, metric, date_column, frequency) ==
    [type |-> "time_series", output_name |-> name, filters |-> filters,
     group_by |-> group_by, metric_column |-> metric_column, metric |-> metric,
     date_column |-> date_column, frequency |-> frequency]

CorrelationAnalysis(name, filters, group_by, columns, threshold) ==
    [type |-> "correlation", output_name |-> name, filters |-> filters,
     group_by |-> group_by, columns |-> columns, threshold |-> threshold]

\* a step of a type ANALYSIS_HANDLERS does not hold
PivotStep == [type |-> "pivot", output_name |-> "pivot", filters |-> <<>>, group_by |-> <<>>]

DateCells == {Str(DatePrefix \o <<"1">>), Str(DatePrefix \o <<"3">>)}

\* the tables of the handlers: a text and a numeric column, or a date and a
\* numeric column; the column names are distinct, as extract.py leaves them
HandlerLayouts ==
    {<<Col("g", TextCells), Col("x", NumCells)>>,
     <<Col("d", DateCells), Col("x", {Num(1), Num(2)})>>}

\* tables with one more row at the head, a row that the filter g eq "b"
\* removes: the rows left keep index labels that are not their positions
LeadingRow == <<Str(<<"b", ";", "a">>), Num(1)>>

ShiftedLayout == <<Col("g", {Str(<<"b">>), NA}), Col("x", {Num(1), Num(2)})>>

ShiftedTables ==
    {MakeTable(<<"g", "x">>, <<LeadingRow>> \o rs) :
        rs \in SeqsUpTo(RowsOver(ShiftedLayout), MaxRows)}

HandlerTables == UNION {TablesOver(l, MaxRows) : l \in HandlerLayouts} \cup ShiftedTables

\* no filter; a filter no row passes; a filter whose comparison of strings
\* with a number raises TypeError
StepFilters ==
    {<<>>,
     <<Filter("g", "eq", <<Lit("zz")>>)>>,
     <<Filter("g", "gt", <<Num(1)>>)>>}

Split == Transformation("split_and_explode", Params(<<";">>, Absent))

\* the fits of key_driver: one that raises, one with p-values
Fits ==
    {[raises |-> TRUE, pvalues |-> <<Rat(1, 2), Rat(1, 2), Rat(1, 2)>>],
     [raises |-> FALSE, pvalues |-> <<Rat(1, 2), Rat(1, 100), Rat(1, 2)>>]}

NoFit == [raises |-> FALSE, pvalues |-> <<>>]

FitsFor(s) == IF s.type = "key_driver" THEN Fits ELSE {NoFit}

CustomSteps ==
    {CustomAnalysis("custom", <<>>, gb, tc, <<>>, op) :
        gb \in {<<>>, <<"g">>},
        tc \in {<<"x">>, <<"g", "zz">>, <<"zz">>},
        op \in op_handlers}
    \cup {CustomAnalysis("custom", f, <<>>, <<"g">>, <<Split>>, "distribution") :
            f \in StepFilters}

SummarySteps ==
    {SummaryStatsAnalysis("stats", f, gb, nc, ct) :
        f \in {<<>>, <<Filter("g", "eq", <<Lit("zz")>>)>>},
        gb \in {<<>>, <<"g">>},
        nc \in {<<"x">>, <<"x", "zz">>},
        ct \in {<<>>,
                <<ColumnTransformation("x", <<Transformation("fill_na", NoParams)>>)>>,
                <<ColumnTransformation("x", <<Transformation("split_and_explode", NoParams)>>)>>,
                <<ColumnTransformation("x", <<Transformation("to_root_node", NoParams)>>)>>}}

CrosstabSteps ==
    {CrosstabAnalysis("crosstab", <<>>, gb, "g", cc, ct, sp) :
        gb \in {<<>>, <<"g">>},
        cc \in {"x", "zz"},
        ct \in {<<>>,
                <<ColumnTransformation("g", <<Split>>)>>,
                <<ColumnTransformation("g", <<Transformation("to_numeric", NoParams)>>)>>},
        sp \in {"none", "index"}}

OutlierSteps ==
    {OutlierDetectionAnalysis("outliers", f, gb, tc, method, threshold) :
        f \in StepFilters \cup {<<Filter("g", "eq", <<Str(<<"b">>)>>)>>},
        gb \in {<<>>, <<"g">>},
        tc \in {<<"x">>, <<"zz", "x">>, <<"zz", "g", "x">>},
        method \in {"iqr", "z-score"},
        threshold \in {Rat(1, 4), Rat(1, 2), Rat(3, 2)}}

CorrelationSteps ==
    {CorrelationAnalysis("correlation", <<>>, <<>>, columns, threshold) :
        columns \in {<<"g", "x">>, <<"x", "zz">>, <<"d", "x">>},
        threshold \in {Rat(0, 1), Rat(1, 1)}}

TimeSeriesSteps ==
    {TimeSeriesAnalysis("series", <<>>, <<>>, mc, metric, dc, frequency) :
        mc \in {"x", "zz"},
        metric \in {"sum", "average", "count"},
        dc \in {"d", "g"},
        frequency \in {"D", "W"}}

KeyDriverSteps ==
    {KeyDriverAnalysis("drivers", <<>>, <<>>, "x", fc, <<"g">>, TRUE, Rat(1, 20)) :
        fc \in {<<"g">>, <<"g", "zz">>}}

HandlerSteps ==
    CustomSteps \cup SummarySteps \cup CrosstabSteps \cup OutlierSteps
    \cup CorrelationSteps \cup TimeSeriesSteps \cup KeyDriverSteps

\* the tables and the steps of the requests given to the orchestrator
OrchLayout == <<Col("g", {Str(<<"b">>)}), Col("x", {Num(1), NA})>>

OrchTables == TablesOver(OrchLayout, MaxRows)

OrchSteps ==
    {CustomAnalysis("custom", <<>>, <<>>, <<"x">>, <<>>, "average"),
     SummaryStatsAnalysis("stats", <<>>, <<>>, <<"x">>, <<>>),
     SummaryStatsAnalysis("badstats", <<>>, <<>>, <<"x">>,
        <<ColumnTransformation("x", <<Transformation("to_root_node", NoParams)>>)>>),
     CrosstabAnalysis("crosstab", <<>>, <<>>, "g", "x", <<>>, "none"),
     CrosstabAnalysis("badcrosstab", <<>>, <<>>, "g", "x",
        <<ColumnTransformation("g", <<Transformation("to_numeric", NoParams)>>)>>, "none"),
     OutlierDetectionAnalysis("outliers", <<Filter("g", "eq", <<Lit("zz")>>)>>, <<>>,
        <<"x">>, "iqr", Rat(3, 2)),
     CorrelationAnalysis("correlation", <<>>, <<>>, <<"g", "x">>, Rat(0, 1)),
     TimeSeriesAnalysis("series", <<>>, <<>>, "x", "sum", "d", "D"),
     KeyDriverAnalysis("drivers", <<>>, <<>>, "x", <<"zz">>, <<>>, TRUE, Rat(1, 20)),
     PivotStep}

Requests == SeqsUpTo(OrchSteps, MaxSteps)

(***************************************************************************)
(* SpecPrep: calls of prepare_data_groups on the caller's table, one after *)
(* the other, each with a step of its own.                                 *)
(***************************************************************************)
InitPrep ==
    /\ df \in Tables
    /\ step = NoStep
    /\ result = NoResult
    /\ request = <<>>
    /\ pc = "idle"
    /\ idx = 0
    /\ yielded = <<>>
    /\ invoked = <<>>
    /\ fn_args = <<>>
    /\ fn_value = <<>>
    /\ ols = NoFit
    /\ _seen_once = {}

CallPrepare ==
    /\ pc = "idle"
    /\ \E s \in PrepSteps :
        \E r \in {prepare_data_groups(df, s)} :
        /\ step' = s
        /\ result' = r
        /\ df' = r.df
        /\ pc' = IF r.exc = "" THEN "returned" ELSE "raised"
        /\ UNCHANGED <<request, idx, yielded, invoked, fn_args, fn_value, ols, _seen_once>>

\* the caller goes on (to its next call) with the table the call left it
PrepDone ==
    /\ pc \in {"returned", "raised"}
    /\ pc' = "idle"
    /\ step' = NoStep
    /\ result' = NoResult
    /\ UNCHANGED <<df, request, idx, yielded, invoked, fn_args, fn_value, ols, _seen_once>>

NextPrep == CallPrepare \/ PrepDone

SpecPrep == InitPrep /\ [][NextPrep]_vars

(***************************************************************************)
(* SpecHandler: calls of the analysis handlers, handler(df, step), on the  *)
(* caller's table.                                                         *)
(***************************************************************************)
InitHandler ==
    /\ df \in HandlerTables
    /\ step = NoStep
    /\ result = NoResult
    /\ request = <<>>
    /\ pc = "idle"
    /\ idx = 0
    /\ yielded = <<>>
    /\ invoked = <<>>
    /\ fn_args = <<>>
    /\ fn_value = <<>>
    /\ ols = NoFit
    /\ _seen_once = {}

RunHandler ==
    /\ pc = "idle"
    /\ \E s \in HandlerSteps : \E fit \in FitsFor(s) :
        \E out \in {CallHandler(df, s, fit)} :
        /\ step' = s
        /\ result' = out
        /\ df' = out.df
        /\ pc' = IF out.ret = "value" THEN "returned" ELSE "raised"
        /\ ols' = fit
        /\ UNCHANGED <<request, idx, yielded, invoked, fn_args, fn_value, _seen_once>>

HandlerDone ==
    /\ pc \in {"returned", "raised"}
    /\ pc' = "idle"
    /\ step' = NoStep
    /\ result' = NoResult
    /\ ols' = NoFit
    /\ UNCHANGED <<df, request, idx, yielded, invoked, fn_args, fn_value, _seen_once>>

NextHandler == RunHandler \/ HandlerDone

SpecHandler == InitHandler /\ [][NextHandler]_vars

(***************************************************************************)
(* Spec: a consumer of the generator run_dynamic_analysis(df, request).    *)
(* idx counts the steps the loop has taken up, invoked lists the steps     *)
(* whose handler was called, yielded the items the consumer received.      *)
(***************************************************************************)
Init ==
    /\ df \in OrchTables
    /\ request \in Requests
    /\ step = NoStep
    /\ result = NoResult
    /\ pc = "created"
    /\ idx = 0
    /\ yielded = <<>>
    /\ invoked = <<>>
    /\ fn_args = <<>>
    /\ fn_value = <<>>
    /\ ols = NoFit
    /\ _seen_once = {}

\* next(generator) while steps remain
NextItem ==
    /\ pc \in {"created", "suspended"}
    /\ idx < Len(request)
    /\ \E fit \in FitsFor(request[idx + 1]) :
        \E r \in {RunUntilYield(df, request, idx, fit)} :
        /\ idx' = r.idx
        /\ df' = r.df
        /\ invoked' = invoked \o r.invoked
        /\ yielded' = yielded \o r.items
        /\ step' = request[r.idx]
        /\ result' = r.out
        /\ pc' = IF r.items = <<>> THEN "done" ELSE "suspended"
        /\ UNCHANGED <<request, fn_args, fn_value, ols, _seen_once>>

\* next(generator) after the last step: the loop ends, StopIteration
StopIteration ==
    /\ pc \in {"created", "suspended"}
    /\ idx = Len(request)
    /\ pc' = "done"
    /\ UNCHANGED <<df, step, result, request, idx, yielded, invoked, fn_args, fn_value, ols, _seen_once>>

\* the consumer drops the generator without exhausting it
Close ==
    /\ pc \in {"created", "suspended"}
    /\ pc' = "closed"
    /\ UNCHANGED <<df, step, result, request, idx, yielded, invoked, fn_args, fn_value, ols, _seen_once>>

Next == NextItem \/ StopIteration \/ Close

Spec == Init /\ [][Next]_vars

(***************************************************************************)
(* SpecCorrelation: calls of correlation.run on tables of two numeric      *)
(* columns, of two columns of strings, and of one of each.                 *)
(***************************************************************************)
LevelCells == {Str(<<"a">>), Str(<<"b">>)}

CorrelationLayouts ==
    {<<Col("x", NumCells), Col("y", {Num(1), Num(2)})>>,
     <<Col("g", LevelCells \cup {NA}), Col("h", LevelCells)>>,
     <<Col("g", LevelCells), Col("x", NumCells)>>}

CorrelationTables == UNION {TablesOver(l, MaxCorrRows) : l \in CorrelationLayouts}

PairSteps ==
    {CorrelationAnalysis("correlation", <<>>, <<>>, columns, threshold) :
        columns \in {<<"x", "y">>, <<"y", "x">>, <<"g", "h">>, <<"h", "g">>,
                     <<"g", "x">>, <<"x", "g">>},
        threshold \in {Rat(0, 1), Rat(1, 2), Rat(1, 1), Rat(11, 10)}}

InitCorrelation ==
    /\ df \in CorrelationTables
    /\ step = NoStep
    /\ result = NoResult
    /\ request = <<>>
    /\ pc = "idle"
    /\ idx = 0
    /\ yielded = <<>>
    /\ invoked = <<>>
    /\ fn_args = <<>>
    /\ fn_value = <<>>
    /\ ols = NoFit
    /\ _seen_once = {}

RunCorrelation ==
    /\ pc = "idle"
    /\ \E s \in PairSteps :
        \E out \in {correlation_run(df, s)} :
        /\ step' = s
        /\ result' = out
        /\ df' = out.df
        /\ pc' = IF out.ret = "value" THEN "returned" ELSE "raised"
        /\ UNCHANGED <<request, idx, yielded, invoked, fn_args, fn_value, ols, _seen_once>>

CorrelationDone ==
    /\ pc \in {"returned", "raised"}
    /\ pc' = "idle"
    /\ step' = NoStep
    /\ result' = NoResult
    /\ UNCHANGED <<df, request, idx, yielded, invoked, fn_args, fn_value, ols, _seen_once>>

NextCorrelation == RunCorrelation \/ CorrelationDone

SpecCorrelation == InitCorrelation /\ [][NextCorrelation]_vars

(***************************************************************************)
(* SpecKeyDriver: calls of key_driver.run on tables of a target y, a       *)
(* numeric feature x (a cell of it missing, or a string that is no number) *)
(* and a feature g of strings, with what statsmodels                       *)
(* computes as an input: the fit raises, or gives each term of the model   *)
(* (the constant first when there is one) a p-value between 0 and 1.       *)
(***************************************************************************)
KeyDriverLayout ==
    <<Col("y", {Num(1)}), Col("x", {Num(1), NA}), Col("g", LevelCells)>>

\* the same with a string that is no number among the cells of x
KeyDriverTextLayout ==
    <<Col("y", {Num(1)}), Col("x", {Num(1), Str(<<"n">>)}), Col("g", LevelCells)>>

KeyDriverTables ==
    TablesOver(KeyDriverLayout, MaxFitRows) \cup TablesOver(KeyDriverTextLayout, MaxFitRows)

KeyDriverFits ==
    {[raises |-> TRUE, pvalues |-> <<Rat(1, 2), Rat(1, 2), Rat(1, 2)>>],
     [raises |-> FALSE, pvalues |-> <<Rat(1, 2), Rat(1, 100), Rat(1, 2)>>],
     [raises |-> FALSE, pvalues |-> <<Rat(1, 100), Rat(1, 1), Rat(1, 100)>>],
     [raises |-> FALSE, pvalues |-> <<Rat(1, 1), Rat(1, 2), Rat(1, 100)>>]}

\* p_value_threshold: Field(gt=0, le=1)
KeyDriverThresholds == {Rat(1, 20), Rat(3, 4), Rat(1, 1)}

FitSteps ==
    {KeyDriverAnalysis("drivers", <<>>, gb, "y", f.columns, f.categorical, ii, t) :
        gb \in {<<>>, <<"g">>},
        f \in {[columns |-> <<"x">>, categorical |-> <<>>],
               [columns |-> <<"x", "g">>, categorical |-> <<"g">>]},
        ii \in BOOLEAN,
        t \in KeyDriverThresholds}

InitKeyDriver ==
    /\ df \in KeyDriverTables
    /\ step = NoStep
    /\ result = NoResult
    /\ request = <<>>
    /\ pc = "idle"
    /\ idx = 0
    /\ yielded = <<>>
    /\ invoked = <<>>
    /\ fn_args = <<>>
    /\ fn_value = <<>>
    /\ ols = NoFit
    /\ _seen_once = {}

RunKeyDriver ==
    /\ pc = "idle"
    /\ \E s \in FitSteps : \E fit \in KeyDriverFits :
        \E out \in {key_driver_run(df, s, fit)} :
        /\ step' = s
        /\ result' = out
        /\ df' = out.df
        /\ pc' = IF out.ret = "value" THEN "returned" ELSE "raised"
        /\ ols' = fit
        /\ UNCHANGED <<request, idx, yielded, invoked, fn_args, fn_value, _seen_once>>

KeyDriverDone ==
    /\ pc \in {"returned", "raised"}
    /\ pc' = "idle"
    /\ step' = NoStep
    /\ result' = NoResult
    /\ ols' = NoFit
    /\ UNCHANGED <<df, request, idx, yielded, invoked, fn_args, fn_value, _seen_once>>

NextKeyDriver == RunKeyDriver \/ KeyDriverDone

SpecKeyDriver == InitKeyDriver /\ [][NextKeyDriver]_vars

(***************************************************************************)
(* SpecSeries: calls of time_series.run on tables of a date column d (a    *)
(* string that is no date among its cells), a metric column x and a        *)
(* grouping column g.                                                      *)
(***************************************************************************)
SeriesLayout ==
    <<Col("d", DateCells \cup {Str(<<"n">>)}), Col("x", NumCells), Col("g", LevelCells)>>

SeriesTables == TablesOver(SeriesLayout, MaxRows)

SeriesSteps ==
    {TimeSeriesAnalysis("series", <<>>, gb, "x", metric, dc, frequency) :
        gb \in {<<>>, <<"g">>},
        metric \in {"sum", "average", "count"},
        dc \in {"d", "zz"},
        frequency \in {"D", "W", "ME"}}

InitSeries ==
    /\ df \in SeriesTables
    /\ step = NoStep
    /\ result = NoResult
    /\ request = <<>>
    /\ pc = "idle"
    /\ idx = 0
    /\ yielded = <<>>
    /\ invoked = <<>>
    /\ fn_args = <<>>
    /\ fn_value = <<>>
    /\ ols = NoFit
    /\ _seen_once = {}

RunSeries ==
    /\ pc = "idle"
    /\ \E s \in SeriesSteps :
        \E out \in {time_series_run(df, s)} :
        /\ step' = s
        /\ result' = out
        /\ df' = out.df
        /\ pc' = IF out.ret = "value" THEN "returned" ELSE "raised"
        /\ UNCHANGED <<request, idx, yielded, invoked, fn_args, fn_value, ols, _seen_once>>

SeriesDone ==
    /\ pc \in {"returned", "raised"}
    /\ pc' = "idle"
    /\ step' = NoStep
    /\ result' = NoResult
    /\ UNCHANGED <<df, request, idx, yielded, invoked, fn_args, fn_value, ols, _seen_once>>

NextSeries == RunSeries \/ SeriesDone

SpecSeries == InitSeries /\ [][NextSeries]_vars

(***************************************************************************)
(* extract.py: the names load_tabular_data gives the columns. A name is a  *)
(* sequence of characters.                                                 *)
(***************************************************************************)
\* str.lower() on one character
LowerChar(c) == CASE c = "A" -> "a" [] c = "B" -> "b" [] OTHER -> c

\* re.sub of each maximal run of characters of a class by one character
RECURSIVE SubRuns(_, _, _)
SubRuns(cs, class, rep) ==
    IF cs = <<>> THEN <<>>
    ELSE IF Head(cs) \notin class THEN <<Head(cs)>> \o SubRuns(Tail(cs), class, rep)
    ELSE IF Len(cs) > 1 /\ cs[2] \in class THEN SubRuns(Tail(cs), class, rep)
    ELSE <<rep>> \o SubRuns(Tail(cs), class, rep)

\* str.strip("_")
RECURSIVE StripUnderscores(_)
StripUnderscores(cs) ==
    IF cs = <<>> THEN cs
    ELSE IF Head(cs) = "_" THEN StripUnderscores(Tail(cs))
    ELSE IF cs[Len(cs)] = "_" THEN StripUnderscores(SubSeq(cs, 1, Len(cs) - 1))
    ELSE cs

\* lines 67-82
_normalize_column_name(name) ==
    LET spaced == SubRuns(Strip(name), {" "}, " ")
        lowered == [i \in 1..Len(spaced) |-> LowerChar(spaced[i])]
        worded == SubRuns(lowered, {" ", "%", ",", "-", ".", "/", ";"}, "_")
    IN  StripUnderscores(SubRuns(worded, {"_"}, "_"))

\* lines 96-102: the loop over the normalized names from the k-th on, seen
\* being the names met so far, one entry for each time a name was met
RECURSIVE UniqueCols(_, _, _)
UniqueCols(normalized, seen, k) ==
    IF k > Len(normalized) THEN <<>>
    ELSE LET base == IF normalized[k] = <<>> THEN <<"c", "o", "l", "u", "m", "n">>
                     ELSE normalized[k]
             count == Cardinality({i \in 1..Len(seen) : seen[i] = base}) + 1
         IN  <<IF count = 1 THEN base ELSE base \o <<"_">> \o Digits(count)>>
             \o UniqueCols(normalized, Append(seen, base), k + 1)

\* lines 85-105: the column names _normalize_headers gives a table whose
\* columns are named columns
_normalize_headers(columns) ==
    UniqueCols([i \in 1..Len(columns) |-> _normalize_column_name(columns[i])], <<>>, 1)

(***************************************************************************)
(* SpecHeaders: calls of _normalize_headers on the header row of a file.   *)
(* pd.read_csv and pd.read_excel have already told equal headers apart     *)
(* ("a", "a.1"), so the raw names of a table are distinct.                 *)
(***************************************************************************)
RawHeaders ==
    {<<"a">>, <<"A">>, <<"a", " ", "2">>, <<"a", "_", "2">>, <<"a", ".", "1">>,
     <<" ", "b", " ", " ", "B", "-">>, <<"-">>, <<"_", "a", "_", "_", "2">>}

HeaderRows ==
    {hs \in UNION {[1..n -> RawHeaders] : n \in 1..MaxHeaders} :
        \A i, j \in 1..Len(hs) : i # j => hs[i] # hs[j]}

InitHeaders ==
    /\ df = NoTable
    /\ step = NoStep
    /\ result = NoResult
    /\ request = <<>>
    /\ pc = "idle"
    /\ idx = 0
    /\ yielded = <<>>
    /\ invoked = <<>>
    /\ fn_args \in HeaderRows
    /\ fn_value = <<>>
    /\ ols = NoFit
    /\ _seen_once = {}

NormalizeHeaders ==
    /\ pc = "idle"
    /\ fn_value' = _normalize_headers(fn_args)
    /\ pc' = "normalized"
    /\ UNCHANGED <<df, step, result, request, idx, yielded, invoked, fn_args, ols, _seen_once>>

\* the next file is loaded
HeadersDone ==
    /\ pc = "normalized"
    /\ \E hs \in HeaderRows : fn_args' = hs
    /\ fn_value' = <<>>
    /\ pc' = "idle"
    /\ UNCHANGED <<df, step, result, request, idx, yielded, invoked, ols, _seen_once>>

NextHeaders == NormalizeHeaders \/ HeadersDone

SpecHeaders == InitHeaders /\ [][NextHeaders]_vars

(***************************************************************************)
(* report_auto/logs.py: warn_once and the module-level set _seen_once,     *)
(* created once when the module is imported and shared by every caller of  *)
(* the process.                                                            *)
(*                                                                         *)
(* SpecLogs: two invocations of the pipeline in one process, their calls   *)
(* of warn_once interleaved in any order. fn_args[i] lists the messages    *)
(* invocation i has passed to warn_once, fn_value[i] the warnings logged   *)
(* for it.                                                                 *)
(***************************************************************************)
Invocations == {1, 2}

Messages == {"m1", "m2", "m3"}

\* lines 39-43: what a call warn_once(msg) logs, seen being _seen_once
Logged(seen, msg) == IF msg \in seen THEN <<>> ELSE <<msg>>

InitLogs ==
    /\ df = NoTable
    /\ step = NoStep
    /\ result = NoResult
    /\ request = <<>>
    /\ pc = "idle"
    /\ idx = 0
    /\ yielded = <<>>
    /\ invoked = <<>>
    /\ fn_args = [i \in Invocations |-> <<>>]
    /\ fn_value = [i \in Invocations |-> <<>>]
    /\ ols = NoFit
    /\ _seen_once = {}

\* one invocation calls warn_once(msg)
WarnOnce ==
    \E i \in Invocations : \E msg \in Messages :
        /\ Len(fn_args[i]) < MaxWarnings
        /\ fn_args' = [fn_args EXCEPT ![i] = Append(@, msg)]
        /\ fn_value' = [fn_value EXCEPT ![i] = @ \o Logged(_seen_once, msg)]
        /\ _seen_once' = _seen_once \cup {msg}
        /\ UNCHANGED <<df, step, result, request, pc, idx, yielded, invoked, ols>>

NextLogs == WarnOnce

SpecLogs == InitLogs /\ [][NextLogs]_vars

(***************************************************************************)
(* SpecDistribution: calls of _op_distribution on one column of strings,   *)
(* its rows in any order.                                                  *)
(***************************************************************************)
ValueCells == {Str(<<"a">>), Str(<<"b">>), Str(<<"n">>), NA}

DistributionTables == TablesOver(<<Col("v", ValueCells)>>, MaxItems)

InitDistribution ==
    /\ df \in DistributionTables
    /\ step = NoStep
    /\ result = NoResult
    /\ request = <<>>
    /\ pc = "idle"
    /\ idx = 0
    /\ yielded = <<>>
    /\ invoked = <<>>
    /\ fn_args = <<>>
    /\ fn_value = <<>>
    /\ ols = NoFit
    /\ _seen_once = {}

RunDistribution ==
    /\ pc = "idle"
    /\ fn_args' = ColumnSeries(df, "v")
    /\ fn_value' = _op_distribution(ColumnSeries(df, "v"))
    /\ pc' = "computed"
    /\ UNCHANGED <<df, step, result, request, idx, yielded, invoked, ols, _seen_once>>

\* the caller goes on to the next column
DistributionDone ==
    /\ pc = "computed"
    /\ \E t \in DistributionTables : df' = t
    /\ fn_args' = <<>>
    /\ fn_value' = <<>>
    /\ pc' = "idle"
    /\ UNCHANGED <<step, result, request, idx, yielded, invoked, ols, _seen_once>>

NextDistribution == RunDistribution \/ DistributionDone

SpecDistribution == InitDistribution /\ [][NextDistribution]_vars

(***************************************************************************)
(* SpecPercent: calls of _compute_percentages(counts), counts being what   *)
(* Series.value_counts() of a Series that is not empty returns: positive   *)
(* counts in descending order, one per distinct value.                     *)
(***************************************************************************)
CountLists ==
    {cs \in UNION {[1..k -> 1..MaxCount] : k \in 1..MaxValues} :
        \A i \in 1..(Len(cs) - 1) : cs[i] >= cs[i + 1]}

InitPercent ==
    /\ df = NoTable
    /\ step = NoStep
    /\ result = NoResult
    /\ request = <<>>
    /\ pc = "idle"
    /\ idx = 0
    /\ yielded = <<>>
    /\ invoked = <<>>
    /\ fn_args \in CountLists
    /\ fn_value = <<>>
    /\ ols = NoFit
    /\ _seen_once = {}

ComputePercentages ==
    /\ pc = "idle"
    /\ fn_value' = _compute_percentages(fn_args)
    /\ pc' = "computed"
    /\ UNCHANGED <<df, step, result, request, idx, yielded, invoked, fn_args, ols, _seen_once>>

\* the caller goes on to the counts of its next Series
PercentagesDone ==
    /\ pc = "computed"
    /\ \E cs \in CountLists : fn_args' = cs
    /\ fn_value' = <<>>
    /\ pc' = "idle"
    /\ UNCHANGED <<df, step, result, request, idx, yielded, invoked, ols, _seen_once>>

NextPercent == ComputePercentages \/ PercentagesDone

SpecPercent == InitPercent /\ [][NextPercent]_vars

(***************************************************************************)
(* Properties of prepare_data_groups (SpecPrep).                           *)
(***************************************************************************)
Called == pc \in {"returned", "raised"}

Ambiguous(tbl, f) == Cardinality(Positions(tbl, f.column)) > 1

\* row r of tbl passes every filter of the list, each judged on its own
SatisfiesAll(tbl, r, filters) ==
    \A k \in 1..Len(filters) :
        LET f == filters[k]
            j == Pos(tbl, f.column)
        IN  MatchCell(r.cells[j], tbl.dtypes[j], f)

\* the (group, position) places where row r occurs in the returned groups
PlacesOf(r) ==
    {p \in UNION {{<<g, i>> : i \in 1..Len(result.groups[g].df.rows)} :
                    g \in 1..Len(result.groups)} :
        result.groups[p[1]].df.rows[p[2]] = r}

\* C8 (as claimed): when a filter's column name resolves to more than one
\* column of the table, prepare_data_groups fails with a ConfigurationError
\* and no filter of the list has been applied to the rows when it is raised.
C8_AmbiguousFilterIsConfigurationError ==
    (/\ Called
     /\ \A k \in 1..Len(step.filters) : HasColumn(df, step.filters[k].column)
     /\ \E k \in 1..Len(step.filters) : Ambiguous(df, step.filters[k]))
    => (/\ pc = "raised"
        /\ result.exc = "ConfigurationError"
        /\ result.applied = 0)

\* C9: with a non-empty group_by, the returned sub-tables partition exactly
\* the rows of the table that satisfy all filters: such a row is in exactly
\* one group, once (rows with a missing key included); a row failing a
\* filter is in no group; a group holds only rows of its own key and no two
\* groups share a key.
C9_GroupsPartitionFilteredRows ==
    (pc = "returned" /\ step.group_by # <<>>) =>
        /\ \A i \in 1..Len(df.rows) :
             Cardinality(PlacesOf(df.rows[i])) =
                IF SatisfiesAll(df, df.rows[i], step.filters) THEN 1 ELSE 0
        /\ \A g \in 1..Len(result.groups) :
             /\ result.groups[g].df.rows # <<>>
             /\ \A i \in 1..Len(result.groups[g].df.rows) :
                  LET r == result.groups[g].df.rows[i] IN
                  /\ r \in Range(df.rows)
                  /\ KeyOf(df, step.group_by, r) = result.groups[g].name
             /\ \A h \in 1..Len(result.groups) :
                  result.groups[h].name = result.groups[g].name => h = g

\* a grouped call in which a filter removed a row and a row with a missing
\* key formed a group
C9_Witness ==
    /\ pc = "returned"
    /\ step.group_by # <<>>
    /\ step.filters # <<>>
    /\ \E i \in 1..Len(df.rows) : ~SatisfiesAll(df, df.rows[i], step.filters)
    /\ \E g \in 1..Len(result.groups) :
         \E j \in 1..Len(result.groups[g].name) : IsNA(result.groups[g].name[j])

\* C10: no call of prepare_data_groups changes the caller's table: it has
\* the same columns, rows and cells after the call, whatever the step, so
\* the next call sees the original table.
C10_InputNeverMutated == [][df' = df]_vars

\* a call that applied filters and returned fewer rows than the table holds
C10_Witness ==
    /\ pc = "returned"
    /\ result.applied > 0
    /\ \E i \in 1..Len(df.rows) : PlacesOf(df.rows[i]) = {}

(***************************************************************************)
(* Properties of the analysis handlers (SpecHandler).                      *)
(***************************************************************************)
\* the columns a step names for its analysis
NeededColumns(s) ==
    CASE s.type = "custom" -> Range(s.target_columns)
      [] s.type = "summary_stats" -> Range(s.numeric_columns)
      [] s.type = "crosstab" -> {s.index_column, s.column_to_compare}
      [] s.type = "outlier_detection" -> Range(s.target_columns)
      [] s.type = "correlation" -> Range(s.columns)
      [] s.type = "time_series" -> {s.metric_column, s.date_column}
      [] OTHER -> {s.target_variable} \cup Range(s.feature_columns)

\* the transformation actions the step's analysis accepts
Whitelisted(s) ==
    CASE s.type = "crosstab" -> ActionsOf(s.column_transformations) \subseteq CrosstabAllowed
      [] s.type = "summary_stats" -> ActionsOf(s.column_transformations) \subseteq SummaryAllowed
      [] OTHER -> TRUE

\* the call's filters and grouping are well-formed for the table, and some
\* group holds rows
Prepared(table, s) ==
    \E prep \in {prepare_data_groups(table, s)} :
        /\ prep.exc = ""
        /\ \E g \in 1..Len(prep.groups) : ~IsEmpty(prep.groups[g].df)

\* the call's filters and grouping are well-formed for the table
PreparedAtAll(table, s) == prepare_data_groups(table, s).exc = ""

\* C3 (as claimed): a handler that returns, returns a ReportBlock; it never
\* returns None, also when the table has no rows or every group is empty
\* after filtering.
C3_HandlerReturnsReportBlock ==
    pc = "returned" => result.value.kind = "block"

\* C5 (as claimed): when a column the step needs is absent from the table
\* (the filters and the grouping being well-formed and some group holding
\* rows), the handler does not raise: it returns a block whose table holds a
\* sentinel row.
C5_MissingColumnGivesSentinelRow ==
    (/\ Called
     /\ Whitelisted(step)
     /\ \E c \in NeededColumns(step) : ~HasColumn(df, c)
     /\ Prepared(df, step))
    => (/\ pc = "returned"
        /\ result.value.kind = "block"
        /\ result.value.data.rows # <<>>)

\* C6 (as claimed): for a table with zero rows (the filters and the grouping
\* being well-formed), the handler raises nothing and returns one block
\* whose data table has zero rows: no placeholder row.
C6_EmptyTableGivesEmptyBlock ==
    (/\ Called
     /\ Len(df.rows) = 0
     /\ Whitelisted(step)
     /\ PreparedAtAll(df, step))
    => (/\ pc = "returned"
        /\ result.value.kind = "block"
        /\ result.value.data.rows = <<>>)

(***************************************************************************)
(* Properties of run_dynamic_analysis (Spec).                              *)
(***************************************************************************)
KnownType(s) == s.type \in ANALYSIS_HANDLERS

\* the handler of step s raises on the table
HandlerRaises(table, s) ==
    KnownType(s) /\ \A fit \in FitsFor(s) : CallHandler(table, s, fit).ret = "raise"

\* the item the consumer is owed for step s: what the step's handler
\* returns, or the error block of the step
OwedItems(table, s) ==
    IF ~KnownType(s)
    THEN {ReportBlock(<<"Error in step: ", s.output_name>>,
                      OneCell(L("Error"), Str(UnknownType(s.type))))}
    ELSE {IF out.ret = "value" THEN out.value
          ELSE ReportBlock(<<"Error in step: ", s.output_name>>,
                           OneCell(L("Error"), Str(Unexpected))) :
            out \in {CallHandler(table, s, fit) : fit \in FitsFor(s)}}

\* the steps among the first k whose type has a handler
KnownAmong(steps, k) == SelectSeq([i \in 1..k |-> i], LAMBDA i : KnownType(steps[i]))

\* C1: the items yielded are, in order, the items of the first steps of the
\* request, one per step, none skipped, repeated or out of place; the
\* generator ends only when every step has had its item.
C1_OneItemPerStepInOrder ==
    /\ Len(yielded) = idx
    /\ idx <= Len(request)
    /\ pc = "done" => Len(yielded) = Len(request)
    /\ \A i \in 1..Len(yielded) : yielded[i] \in OwedItems(df, request[i])

\* a run to the end of a request whose first step has an unknown type and
\* whose second step's handler raises
C1_Witness ==
    /\ pc = "done"
    /\ Len(request) = 2
    /\ ~KnownType(request[1])
    /\ HandlerRaises(df, request[2])
    /\ Len(yielded) = 2

\* C2: the item of a step of an unknown type, or whose handler raises, is
\* an error block titled "Error in step: <output_name>"; the generator does
\* not end before every step has been taken up, the handler of every step
\* of a known type called and an item yielded for every step.
C2_FailureYieldsErrorBlockAndGoesOn ==
    /\ \A i \in 1..Len(yielded) :
         (~KnownType(request[i]) \/ HandlerRaises(df, request[i])) =>
            /\ yielded[i].kind = "block"
            /\ yielded[i].title = <<"Error in step: ", request[i].output_name>>
            /\ yielded[i].data.columns = <<L("Error")>>
            /\ Len(yielded[i].data.rows) = 1
    /\ pc = "done" =>
         /\ idx = Len(request)
         /\ Len(yielded) = Len(request)
         /\ invoked = KnownAmong(request, Len(request))

\* a run to the end in which the handler of the first step raised and the
\* second step was executed and yielded its own block
C2_Witness ==
    /\ pc = "done"
    /\ Len(request) = 2
    /\ HandlerRaises(df, request[1])
    /\ invoked = <<1, 2>>
    /\ yielded[2].kind = "block"
    /\ yielded[2].title = <<request[2].output_name>>

\* a step that uses a transformation action outside the whitelist of its
\* analysis type
Disallowed(s) == ~Whitelisted(s)

\* C4 (as claimed): a request that model_validate accepts and that holds a
\* step with a disallowed transformation action is rejected before any step
\* executes: no handler has been called and no block produced.
C4_DisallowedActionRejectsRequest ==
    (/\ model_validate(request)
     /\ \E i \in 1..Len(request) : Disallowed(request[i]))
    => (invoked = <<>> /\ yielded = <<>>)

\* C7: the handlers that have been called are those of the steps whose
\* items the consumer has received: the handler of a step is not called
\* before the items of all the steps before it have been handed out.
C7_HandlersRunAsItemsAreTaken == invoked = KnownAmong(request, Len(yielded))

\* a consumer that took the first block of a request of two steps and
\* dropped the generator: only the first handler has run
C7_Witness ==
    /\ pc = "closed"
    /\ Len(request) = 2
    /\ KnownType(request[1]) /\ KnownType(request[2])
    /\ Len(yielded) = 1
    /\ invoked = <<1>>

(***************************************************************************)
(* Properties of _compute_percentages (SpecPercent).                       *)
(***************************************************************************)
\* C11: for the counts of every non-empty multiset of values, the integer
\* percentages the distribution reports are one per value, none negative,
\* and sum to exactly 100.
C11_PercentagesSumTo100 ==
    pc = "computed" =>
        /\ Len(fn_value) = Len(fn_args)
        /\ \A i \in 1..Len(fn_value) : fn_value[i] >= 0
        /\ SumSeq(fn_value) = 100

\* three values counted once each: the floors sum to 99 and the first value
\* takes the remaining point
C11_Witness ==
    /\ pc = "computed"
    /\ fn_args = <<1, 1, 1>>
    /\ fn_value = <<34, 33, 33>>

\* C30: each percentage is the floor of the exact percentage of its value
\* or that floor plus one; the shortfall to 100 after flooring is smaller
\* than the number of values, so no value is given more than one extra
\* point.
C30_AtMostOneExtraPoint ==
    pc = "computed" =>
        /\ \A i \in 1..Len(fn_args) :
               fn_value[i] - ((fn_args[i] * 100) \div SumSeq(fn_args)) \in {0, 1}
        /\ 100 - SumSeq([i \in 1..Len(fn_args) |-> (fn_args[i] * 100) \div SumSeq(fn_args)])
               < Len(fn_args)

\* counts 3, 2, 2: the floors 42, 28, 28 leave two points, one for the
\* first value and one for the second
C30_Witness ==
    /\ pc = "computed"
    /\ fn_args = <<3, 2, 2>>
    /\ fn_value = <<43, 29, 28>>

(***************************************************************************)
(* Properties of outlier_detection.run (SpecHandler).                      *)
(***************************************************************************)
OutlierReturned ==
    /\ pc = "returned"
    /\ step.type = "outlier_detection"
    /\ result.value.kind = "block"

\* the groups of the call that hold rows
NonEmptyGroups(table, s) ==
    SelectSeq(prepare_data_groups(table, s).groups, LAMBDA g : ~IsEmpty(g.df))

\* the [index, value] items of a column of a group that convert to a number
NumericItems(g, col) ==
    IF HasColumn(g.df, col) THEN DropNA(ToNumericSeries(ColumnSeries(g.df, col))).items
    ELSE <<>>

\* x lies strictly below the lower or strictly above the upper bound of the
\* values xs, every quantity scaled to an integer:
\*   iqr      4d * x against d * 4Q1 - n * 4IQR and d * 4Q3 + n * 4IQR
\*   z-score  |x - mean| > k * std, squared, std the sample deviation
\* for the threshold k = n/d
StrictlyOutside(xs, s, x) ==
    LET k == s.threshold
        n == Len(xs)
        S == SumSeq(xs)
        Q == SumSeq([i \in 1..n |-> xs[i] * xs[i]])
        Q1 == Quantile4(SortInts(xs), 1)
        Q3 == Quantile4(SortInts(xs), 3)
        lower == k.d * Q1 - k.n * (Q3 - Q1)
        upper == k.d * Q3 + k.n * (Q3 - Q1)
    IN  IF s.method = "iqr"
        THEN 4 * k.d * x < lower \/ 4 * k.d * x > upper
        ELSE /\ n > 1
             /\ (n * x - S) * (n * x - S) * k.d * k.d * (n - 1)
                    > k.n * k.n * n * (n * Q - S * S)

\* the (row index, value) pairs of a group and column that lie strictly
\* outside the bounds
OutsidePairs(g, col, s) ==
    LET items == NumericItems(g, col)
        xs == [i \in 1..Len(items) |-> items[i].value.n]
    IN  {<<Num(items[i].index), items[i].value>> :
            i \in {j \in 1..Len(items) : StrictlyOutside(xs, s, items[j].value.n)}}

\* the rows of the block under the header row of a column: from the row
\* after the header to the row before the next header
SectionRows(rows, col) ==
    LET heads == {i \in 1..Len(rows) : rows[i][L("Column")] # Str(<<>>)}
        mine == {i \in heads : rows[i][L("Column")] = Lit(col)}
        h == CHOOSE i \in mine : TRUE
        later == {i \in heads : i > h}
        stop == IF later = {} THEN Len(rows) + 1
                ELSE CHOOSE i \in later : \A j \in later : i <= j
    IN  IF mine = {} THEN <<>> ELSE SubSeq(rows, h + 1, stop - 1)

\* the rows of a section that report a value, not a message
ValueRows(rows, col) ==
    SelectSeq(SectionRows(rows, col), LAMBDA r : IsNum(r[L("Outlier Value")]))

ReportedPairs(rows, col) ==
    {<<r[L("Original Row Index")], r[L("Outlier Value")]>> : r \in Range(ValueRows(rows, col))}

AllValueRows(rows) == SelectSeq(rows, LAMBDA r : IsNum(r[L("Outlier Value")]))

\* C13 (as claimed): for an outlier step with group_by, the block holds the
\* outliers of every group that holds rows, each detected within its own
\* group, and every row of the block is labelled with its group.
C13_EveryGroupIsReported ==
    (OutlierReturned /\ step.group_by # <<>>) =>
        /\ \A g \in Range(NonEmptyGroups(df, step)) :
             \A j \in 1..Len(step.target_columns) :
                \A p \in OutsidePairs(g, step.target_columns[j], step) :
                   \E r \in Range(AllValueRows(result.value.data.rows)) :
                      /\ r[L("Original Row Index")] = p[1]
                      /\ r[L("Outlier Value")] = p[2]
        /\ L("Group") \in Range(result.value.data.columns)

\* the message owed for a column of a group, "" when it has outliers
SentinelOf(g, col, s) ==
    IF ~HasColumn(g.df, col) THEN "Column not found"
    ELSE IF NumericItems(g, col) = <<>> THEN "No numeric data for analysis"
    ELSE IF OutsidePairs(g, col, s) = {} THEN "No outliers detected"
    ELSE ""

\* the rows under the header of col are the one sentinel row of message m,
\* or value rows only when no message is owed
SectionIs(rows, col, m) ==
    /\ Cardinality({i \in 1..Len(rows) : rows[i][L("Column")] = Lit(col)}) = 1
    /\ IF m = ""
       THEN /\ SectionRows(rows, col) # <<>>
            /\ \A r \in Range(SectionRows(rows, col)) :
                 IsNum(r[L("Outlier Value")]) /\ IsNum(r[L("Original Row Index")])
       ELSE /\ Len(SectionRows(rows, col)) = 1
            /\ SectionRows(rows, col)[1][L("Outlier Value")] = Lit(m)
            /\ IsNA(SectionRows(rows, col)[1][L("Original Row Index")])

CorrelationReturned ==
    /\ pc = "returned"
    /\ step.type = "correlation"
    /\ result.value.kind = "block"

\* the column of the table a cell of Column 1 or Column 2 names is
\* categorical: its dtype is that of strings
NamesCategorical(table, cell) == table.dtypes[Pos(table, cell.s[1])] = "object"

\* C15 (as claimed): a pair of one numeric and one categorical column is not
\* scored: no row of the block names such a pair, whatever the threshold;
\* the rows are Pearson rows of two numeric columns and Cramer's V rows of
\* two categorical columns.
C15_MixedPairIsNotScored ==
    CorrelationReturned =>
        \A i \in 1..Len(result.value.data.rows) :
            LET r == result.value.data.rows[i] IN
            /\ NamesCategorical(df, r[L("Column 1")]) = NamesCategorical(df, r[L("Column 2")])
            /\ r[L("Correlation Type")] \in {Lit("Pearson"), Lit("Cramer's V")}


\* the rows correlation.run gives at threshold 0, which no value is below:
\* one for each pair with a value that is not NaN
ScoredRows(table, s) == correlation_run(table, [s EXCEPT !.threshold = Rat(0, 1)]).value.data.rows

\* |c| >= k, c a rational cell or the root of one, k a rational
AtLeast(c, k) ==
    IF c.t = "root" THEN k.n <= 0 \/ Abs(c.n) * k.d * k.d >= k.n * k.n * c.d
    ELSE Abs(c.n) * k.d >= k.n * c.d

\* C16: a pair's result is in the block iff its absolute value is at least
\* the threshold: every row has |Correlation Value| >= threshold, the rows
\* are exactly the scored pairs that meet the threshold, and a threshold
\* above 1, the largest value a coefficient takes, gives an empty table.
C16_KeptIffAtLeastThreshold ==
    CorrelationReturned =>
        /\ \A i \in 1..Len(result.value.data.rows) :
               AtLeast(result.value.data.rows[i][L("Correlation Value")], step.threshold)
        /\ result.value.data.rows =
               SelectSeq(ScoredRows(df, step),
                         LAMBDA r : AtLeast(r[L("Correlation Value")], step.threshold))
        /\ (RatLess(Rat(1, 1), step.threshold) => result.value.data.rows = <<>>)

\* a Pearson coefficient equal to the threshold 1/2 is kept
C16_Witness ==
    /\ CorrelationReturned
    /\ step.threshold = Rat(1, 2)
    /\ \E i \in 1..Len(result.value.data.rows) :
           /\ result.value.data.rows[i][L("Correlation Type")] = Lit("Pearson")
           /\ result.value.data.rows[i][L("Correlation Value")] \in {Frac(1, 2), Frac(-1, 2)}


\* the step over the same two columns in the other order
Reversed(s) == [s EXCEPT !.columns = <<s.columns[2], s.columns[1]>>]

\* C17: correlation is symmetric in its two columns: the step over [a, b]
\* and the step over [b, a] give a row for the pair together or not at all,
\* and the two rows have the same Correlation Type and Correlation Value,
\* Column 1 and Column 2 exchanged.
C17_CorrelationIsSymmetric ==
    CorrelationReturned =>
        LET mine == result.value.data.rows
            other == correlation_run(df, Reversed(step)).value.data.rows
        IN  /\ Len(mine) = Len(other)
            /\ \A i \in 1..Len(mine) :
                   /\ mine[i][L("Column 1")] = other[i][L("Column 2")]
                   /\ mine[i][L("Column 2")] = other[i][L("Column 1")]
                   /\ mine[i][L("Correlation Type")] = other[i][L("Correlation Type")]
                   /\ mine[i][L("Correlation Value")] = other[i][L("Correlation Value")]

\* a Cramer's V of 1/2 for the pair taken as [h, g]
C17_Witness ==
    /\ CorrelationReturned
    /\ step.columns = <<"h", "g">>
    /\ \E i \in 1..Len(result.value.data.rows) :
           /\ result.value.data.rows[i][L("Correlation Type")] = Lit("Cramer's V")
           /\ result.value.data.rows[i][L("Correlation Value")] = Frac(1, 2)


(***************************************************************************)
(* Properties of key_driver.run (SpecKeyDriver).                           *)
(***************************************************************************)
KeyDriverReturned ==
    /\ pc = "returned"
    /\ step.type = "key_driver"
    /\ result.value.kind = "block"

\* the group (NA when the table has no Group column) and the feature of
\* each row
RowKeys(rows) ==
    {<<IF L("Group") \in DOMAIN rows[i] THEN rows[i][L("Group")] ELSE NA, rows[i][L("Feature")]>> :
        i \in 1..Len(rows)}

\* the rows of the call had every p-value been 0, below every threshold:
\* one for each term of the model of each fitted group, and its R-squared
FittedRows(table, s, fit) ==
    key_driver_run(table, s, [fit EXCEPT !.pvalues = [k \in DOMAIN fit.pvalues |-> Rat(0, 1)]]).value.data.rows

\* the rows of the call at another threshold
RowsAt(table, s, fit, t) ==
    key_driver_run(table, [s EXCEPT !.p_value_threshold = t], fit).value.data.rows

\* with p_value_threshold = 1.0 every fitted feature, the intercept when
\* there is one and the R-squared row are in the block
RetainsAllAtOne ==
    (KeyDriverReturned /\ step.p_value_threshold = Rat(1, 1)) =>
        RowKeys(result.value.data.rows) = RowKeys(FittedRows(df, step, ols))

\* the rows retained at a threshold are retained at every larger one, and
\* the intercept and R-squared rows at every threshold
RetainedSetGrows ==
    KeyDriverReturned =>
        /\ \A t \in KeyDriverThresholds :
               ~RatLess(t, step.p_value_threshold) =>
                   RowKeys(result.value.data.rows) \subseteq RowKeys(RowsAt(df, step, ols, t))
        /\ \A key \in RowKeys(FittedRows(df, step, ols)) :
               key[2] \in {Lit("const"), Lit("R-squared")} =>
                   key \in RowKeys(result.value.data.rows)

\* C18 (as claimed): with p_value_threshold = 1.0 the output of a fitted
\* group holds every fitted feature, the intercept when include_intercept
\* is set and the R-squared row; and the rows retained at a threshold t1
\* are retained at every threshold t2 >= t1, the intercept and R-squared
\* rows at every threshold.
C18_ThresholdOneRetainsEveryFeature == RetainsAllAtOne /\ RetainedSetGrows


(***************************************************************************)
(* Properties of time_series.run (SpecSeries).                             *)
(***************************************************************************)
SeriesReturned ==
    /\ pc = "returned"
    /\ step.type = "time_series"
    /\ result.value.kind = "block"

\* the numbers among the Value cells of the block, row by row
BinValues(rows) ==
    [k \in 1..Len(rows) |-> IF IsNum(rows[k][L("Value")]) THEN rows[k][L("Value")].n ELSE 0]

\* the metric of each row of a group, 0 for a row whose date or metric does
\* not convert
ValidValues(g, s) ==
    IF ~HasColumn(g.df, s.date_column) \/ ~HasColumn(g.df, s.metric_column) THEN <<>>
    ELSE [i \in 1..Len(g.df.rows) |->
            IF /\ ~IsNA(ToDatetime(g.df.rows[i].cells[Pos(g.df, s.date_column)]))
               /\ ~IsNA(ToNumeric(g.df.rows[i].cells[Pos(g.df, s.metric_column)]))
            THEN ToNumeric(g.df.rows[i].cells[Pos(g.df, s.metric_column)]).n
            ELSE 0]

\* C19: for the metric sum, the sum of the values of all output bins equals
\* the sum of the metric over the input rows whose date and metric both
\* convert, for every frequency and every grouping.
C19_BinsSumToValidValues ==
    (SeriesReturned /\ step.metric = "sum") =>
        LET groups == prepare_data_groups(df, step).groups IN
        SumSeq(BinValues(result.value.data.rows))
            = SumSeq([i \in 1..Len(groups) |-> SumSeq(ValidValues(groups[i], step))])

\* two rows of one week, summed into its bin
C19_Witness ==
    /\ SeriesReturned
    /\ step.metric = "sum"
    /\ step.frequency = "W"
    /\ Len(df.rows) = 2
    /\ \E k \in 1..Len(result.value.data.rows) : result.value.data.rows[k][L("Value")] = Num(3)


(***************************************************************************)
(* Properties of summary_stats.run (SpecHandler).                          *)
(***************************************************************************)
\* a summary_stats step returned its table of statistics
SummaryReturned ==
    /\ pc = "returned"
    /\ step.type = "summary_stats"
    /\ result.value.kind = "block"
    /\ result.value.title = <<step.output_name>>

\* what the transformations of the step do to a column of a group
Transformed(g, col, s) ==
    LET details == SelectSeq(s.column_transformations, LAMBDA ct : ct.column_name = col) IN
    IF details = <<>> THEN SeriesOutcome("", "", ColumnSeries(g.df, col))
    ELSE apply_transformations(ColumnSeries(g.df, col), Head(details).transformations, <<>>)

\* how a column of a group is to open its part of the section: the error
\* row of a column that is missing, whose processing raises or that has no
\* number left, or else the row that names the column, before its statistics
Opening(g, col, s) ==
    IF ~HasColumn(g.df, col) THEN <<"Error", "Column not found">>
    ELSE IF Transformed(g, col, s).exc # "" THEN <<"Error", "Analysis failed: ">>
    ELSE IF Numeric(Transformed(g, col, s).series) = <<>>
    THEN <<"Error", "No numeric data for analysis">>
    ELSE <<"Column", col>>

\* the rows of a section that open the part of a group, as Opening gives them
Openings(section) ==
    LET opens == SelectSeq(section,
                     LAMBDA r : r[L("Metric")] \in {Lit("Error"), Lit("Column")})
    IN  [k \in 1..Len(opens) |-> <<opens[k][L("Metric")].s[1], opens[k][L("Value")].s[1]>>]

C20_RaisedInColumn ==
    /\ SummaryReturned
    /\ step.numeric_columns = <<"x", "zz">>
    /\ Openings(SectionRows(result.value.data.rows, "x")) = << <<"Error", "Analysis failed: ">> >>
    /\ Openings(SectionRows(result.value.data.rows, "zz")) = << <<"Error", "Column not found">> >>


\* C21 (as claimed): for a summary_stats step with group_by the table has a
\* Group column, and every metric row carries the formatted label of a group
\* of the step that holds rows.
C21_SummaryRowsCarryTheirGroup ==
    (SummaryReturned /\ step.group_by # <<>> /\ result.value.data.rows # <<>>) =>
        /\ L("Group") \in Range(result.value.data.columns)
        /\ \A i \in 1..Len(result.value.data.rows) :
               result.value.data.rows[i][L("Metric")] # Str(<<>>) =>
                   \E k \in 1..Len(NonEmptyGroups(df, step)) :
                       result.value.data.rows[i][L("Group")]
                           = format_group_name(NonEmptyGroups(df, step)[k].name)


(***************************************************************************)
(* Properties of operations.run (SpecHandler).                             *)
(***************************************************************************)
CustomCalled == pc \in {"returned", "raised"} /\ step.type = "custom"

\* a row of the block says "Column not found" for the group and the column
ReportsMissing(block, group, col) ==
    \E i \in 1..Len(block.rows) :
        /\ L("Error") \in DOMAIN block.rows[i]
        /\ block.rows[i][L("Error")] = Lit("Column not found")
        /\ L("Group") \in DOMAIN block.rows[i] => block.rows[i][L("Group")] = group
        /\ L("Column") \in DOMAIN block.rows[i] => block.rows[i][L("Column")] = Lit(col)

\* C22 (as claimed): in a custom step a target column absent from the table
\* gives, for every group that holds rows, a row with Error = "Column not
\* found" in the returned block, for every operation and grouping; the call
\* does not raise because of it.
C22_MissingTargetIsReported ==
    (CustomCalled /\ prepare_data_groups(df, step).exc = "") =>
        \A j \in 1..Len(step.target_columns) :
            ~HasColumn(df, step.target_columns[j]) =>
                /\ pc = "returned"
                /\ \A k \in 1..Len(NonEmptyGroups(df, step)) :
                       ReportsMissing(result.value.data,
                                      format_group_name(NonEmptyGroups(df, step)[k].name),
                                      step.target_columns[j])


\* a custom step returned the table of its results, some group holding rows
CustomReturned ==
    /\ pc = "returned"
    /\ step.type = "custom"
    /\ result.value.kind = "block"
    /\ result.value.title = <<step.output_name>>
    /\ NonEmptyGroups(df, step) # <<>>

\* C23 (as claimed): with one target column and no group_by the table of a
\* custom step has no Group and no Column column; in every other case its
\* first two columns are Group and Column, for all six operations.
C23_ContextColumnsWhenNeeded ==
    CustomReturned =>
        IF Len(step.target_columns) = 1 /\ step.group_by = <<>>
        THEN /\ L("Group") \notin Range(result.value.data.columns)
             /\ L("Column") \notin Range(result.value.data.columns)
        ELSE /\ Len(result.value.data.columns) >= 2
             /\ result.value.data.columns[1] = L("Group")
             /\ result.value.data.columns[2] = L("Column")

\* the same for the steps whose target columns are all in the table: the
\* grouped average, sum or median of one column still has no Group column
C23_ShapeOfComputedResults ==
    (CustomReturned /\ \A j \in 1..Len(step.target_columns) : HasColumn(df, step.target_columns[j]))
        => C23_ContextColumnsWhenNeeded


(***************************************************************************)
(* Properties of _normalize_headers (SpecHeaders).                         *)
(***************************************************************************)
\* C24 (as claimed): the column names of the table the loader returns are
\* pairwise distinct, for every list of raw headers.
C24_LoadedNamesAreDistinct ==
    pc = "normalized" =>
        /\ Len(fn_value) = Len(fn_args)
        /\ \A i, j \in 1..Len(fn_value) : i # j => fn_value[i] # fn_value[j]


KeptLabels ==
    UNION {{result.groups[k].df.rows[i].index : i \in 1..Len(result.groups[k].df.rows)} :
              k \in 1..Len(result.groups)}

\* C26 (as claimed): a contains filter never selects a row whose cell is
\* missing, whatever the search string; a row whose cell is not missing is
\* selected exactly when the search string is a substring of the string
\* form of the cell.
C26_ContainsSkipsMissingCells ==
    (/\ pc = "returned"
     /\ Len(step.filters) = 1
     /\ step.filters[1].operator = "contains") =>
        \A i \in 1..Len(df.rows) :
            LET j == Pos(df, step.filters[1].column)
                c == df.rows[i].cells[j]
            IN  df.rows[i].index \in KeptLabels
                    <=> /\ ~IsNA(c)
                        /\ Contains(AsTypeStr(c, df.dtypes[j]), step.filters[1].value[1].s)


(***************************************************************************)
(* Properties of _op_distribution (SpecDistribution).                      *)
(***************************************************************************)
\* the number a cell of the % column shows
PercentOf(c) == CHOOSE p \in 0..100 : c = Str(IntStr(p) \o <<"%">>)

\* C27 (as claimed): of two values with equal counts, hence equal
\* fractional remainders, the one that comes first in value ordering has the
\* extra point when only one of them has one, so that the percentages depend
\* on the counts of the values alone (counts {a:1, b:1, n:1} give a = 34).
C27_TiesGoToTheFirstValue ==
    pc = "computed" =>
        \A i, j \in 1..Len(fn_value.rows) :
            (/\ fn_value.rows[i][L("Count")] = fn_value.rows[j][L("Count")]
             /\ CellLess(fn_value.rows[i][L("")], fn_value.rows[j][L("")]))
                => PercentOf(fn_value.rows[i][L("%")]) >= PercentOf(fn_value.rows[j][L("%")])


\* the rows of a group that are left for its model: the target and every
\* feature present, the target and the features that are not categorical
\* numbers
UsableRows(g, s) ==
    SelectSeq(g.df.rows,
        LAMBDA r :
            /\ \A c \in Range(<<s.target_variable>> \o s.feature_columns) :
                   ~IsNA(r.cells[Pos(g.df, c)])
            /\ \A c \in Range(<<s.target_variable>> \o s.feature_columns) \ Range(s.categorical_features) :
                   ~IsNA(ToNumeric(r.cells[Pos(g.df, c)])))

\* the levels of a categorical feature among the rows of a group in which
\* the target and every feature are present
LevelsOf(g, s, name) ==
    {r.cells[Pos(g.df, name)] :
        r \in {q \in Range(g.df.rows) :
                  \A c \in Range(<<s.target_variable>> \o s.feature_columns) :
                      ~IsNA(q.cells[Pos(g.df, c)])}}

\* the regression features of a group after one-hot expansion: a
\* categorical feature counts one for each of its levels but the first
FeatureCount(g, s) ==
    Cardinality(Range(s.feature_columns) \ Range(s.categorical_features))
    + SumSeq([k \in 1..Len(s.categorical_features) |->
                 IF LevelsOf(g, s, s.categorical_features[k]) = {} THEN 0
                 ELSE Cardinality(LevelsOf(g, s, s.categorical_features[k])) - 1])

\* the names, as the block shows them, of the groups with enough rows
EnoughRows(table, s) ==
    {format_group_name(NonEmptyGroups(table, s)[k].name) :
        k \in {i \in 1..Len(NonEmptyGroups(table, s)) :
                  Len(UsableRows(NonEmptyGroups(table, s)[i], s))
                      > FeatureCount(NonEmptyGroups(table, s)[i], s) + 1}}

\* the rows of the block that close a fitted group
ClosingRows(rows) == {i \in 1..Len(rows) : rows[i][L("Feature")] = Lit("R-squared")}

\* C28: key_driver fits the model of a group only if the rows left after
\* dropping those with a missing or non-numeric target or feature are more
\* than the regression features (after one-hot expansion) plus one; a group
\* with fewer rows is skipped silently, it has no row in the block and the
\* call raises nothing, and the groups with enough rows are still fitted
\* (each unless its own regression fails).
C28_TooFewRowsSkipsTheGroup ==
    (pc \in {"returned", "raised"} /\ step.type = "key_driver") =>
        /\ KeyDriverReturned
        /\ Cardinality(ClosingRows(result.value.data.rows))
               = (IF ols.raises THEN 0 ELSE Cardinality(EnoughRows(df, step)))
        /\ L("Group") \in Range(result.value.data.columns) =>
               {result.value.data.rows[i][L("Group")] : i \in 1..Len(result.value.data.rows)}
                   = EnoughRows(df, step)
        /\ (EnoughRows(df, step) = {} \/ ols.raises) => result.value.data.rows = <<>>

\* a group of three rows is fitted next to a group of one row, which is
\* skipped
C28_Witness ==
    /\ KeyDriverReturned
    /\ step.group_by = <<"g">>
    /\ Len(NonEmptyGroups(df, step)) = 2
    /\ Cardinality(EnoughRows(df, step)) = 1
    /\ Cardinality(ClosingRows(result.value.data.rows)) = 1


\* the days of the rows of a group whose date and metric both convert
ValidDays(g, s) ==
    {ToDatetime(r.cells[Pos(g.df, s.date_column)]).n :
        r \in {q \in Range(g.df.rows) :
                  /\ ~IsNA(ToDatetime(q.cells[Pos(g.df, s.date_column)]))
                  /\ ~IsNA(ToNumeric(q.cells[Pos(g.df, s.metric_column)]))}}

\* the labels of the bins that hold a row of the group
OccupiedBins(g, s) == {BinLabel(s.frequency, day) : day \in ValidDays(g, s)}

\* the labels of the bins from the first to the last valid date of the group
SpannedBins(g, s) ==
    {label \in {BinLabel(s.frequency, day) : day \in -1..40} :
        \E a, b \in OccupiedBins(g, s) : a <= label /\ label <= b}

\* the bins the block is to show for a group, in order: every spanned bin
\* for sum and count, the occupied ones for average; a group without a
\* valid row has one row that says so
ExpectedBins(g, s) ==
    IF ValidDays(g, s) = {} THEN <<[day |-> 0, valid |-> FALSE, empty |-> FALSE]>>
    ELSE LET labels == SortBy(IF s.metric = "average" THEN OccupiedBins(g, s)
                              ELSE SpannedBins(g, s), LAMBDA a, b : a < b)
         IN  [k \in 1..Len(labels) |->
                 [day |-> labels[k], valid |-> TRUE,
                  empty |-> labels[k] \notin OccupiedBins(g, s)]]

\* the rows of the block after its header row
DataRows(rows) == SubSeq(rows, 2, Len(rows))

\* C29: for metric sum or count every resampling bin between the first and
\* the last valid date of a group is in the result, a bin without input
\* rows with value 0; for metric average a bin without input rows is not in
\* the result, so no average of 0 is reported for it.
C29_EmptyBinsZeroOrAbsent ==
    (SeriesReturned /\ step.date_column = "d" /\ NonEmptyGroups(df, step) # <<>>) =>
        LET expected == Flatten([i \in 1..Len(NonEmptyGroups(df, step)) |->
                                    ExpectedBins(NonEmptyGroups(df, step)[i], step)])
        IN  /\ Len(DataRows(result.value.data.rows)) = Len(expected)
            /\ \A k \in 1..Len(expected) :
                   IF expected[k].valid
                   THEN /\ DataRows(result.value.data.rows)[k][L("Timestamp")].t \in {"date", "timestamp"}
                        /\ DataRows(result.value.data.rows)[k][L("Timestamp")].n = expected[k].day
                        /\ expected[k].empty =>
                               /\ step.metric \in {"sum", "count"}
                               /\ DataRows(result.value.data.rows)[k][L("Value")] = Num(0)
                        /\ ~expected[k].empty =>
                               DataRows(result.value.data.rows)[k][L("Value")] # Num(0)
                   ELSE DataRows(result.value.data.rows)[k][L("Timestamp")] = Lit("N/A")

\* a count by day of rows on 2024-01-01 and 2024-01-03: the bin of
\* 2024-01-02 is in the block with value 0
C29_Witness ==
    /\ SeriesReturned
    /\ step.metric = "count"
    /\ step.frequency = "D"
    /\ Len(result.value.data.rows) = 4
    /\ result.value.data.rows[3][L("Timestamp")] = Date(2)
    /\ result.value.data.rows[3][L("Value")] = Num(0)

\* the same rows averaged by day: the block holds the two days of the rows
\* and nothing for 2024-01-02
AverageSkipsEmptyBin ==
    /\ SeriesReturned
    /\ step.metric = "average"
    /\ step.frequency = "D"
    /\ step.date_column = "d"
    /\ step.group_by = <<>>
    /\ Len(df.rows) = 2
    /\ ValidDays(NonEmptyGroups(df, step)[1], step) = {1, 3}
    /\ Len(result.value.data.rows) = 3
    /\ result.value.data.rows[3][L("Timestamp")] = Date(3)

====
